---- MODULE Spec2Model ----
(***************************************************************************)
(* The backtesting engine of src/utils/backtester.py: Backtester and its   *)
(* ledger (current_capital, positions, trades, equity_curve), the bar loop *)
(* of run_backtest, the fills of _execute_buy / _execute_sell, position    *)
(* sizing, the stop-loss / take-profit check and _calculate_results, and  *)
(* HistoricalDataProvider with its CSV, SQLite and PostgreSQL loaders.     *)
(*                                                                         *)
(* Specifications: Spec (one call), SpecRerun (several calls on one        *)
(* instance), SpecSweep (a cost sweep over new instances), SpecProvider    *)
(* (a call that loads from a backing store), SpecAlias (results in the     *)
(* caller's hands across later calls), SpecTwo (two instances at work at   *)
(* once), SpecCalc (_calculate_results called again), SpecEdge (one call   *)
(* with closes down to 0, a capital the entry uses up and a slippage up to *)
(* 10 %) and SpecStats (the drawdown, daily returns, ratios and streaks of *)
(* _calculate_results over trade lists and equity curves).                 *)
(*                                                                         *)
(* Arithmetic.  The source computes in floats.  Here every amount of money *)
(* (capital, prices, commissions, P&L) is an integer number of 1/Unit      *)
(* rupees and every percentage an integer number of 1/PctDen, so that all  *)
(* products and percentages the code forms are exact integers: the model   *)
(* is the code's arithmetic without rounding error.  Where two floats the   *)
(* code compares are equal in exact arithmetic (a close of 110 against the *)
(* target 100 * (1 + 0.10)), rounding decides the comparison in the source *)
(* and the exact value decides it here.                                    *)
(***************************************************************************)
EXTENDS Integers, Sequences, FiniteSets, TLC

\* Percentages are multiples of 1/PctDen (5 %); money is in 1/Unit rupees.
PctDen == 4 * 5
Unit == PctDen * PctDen

\* Bounds of the model.
MaxBars == 3
MaxRuns == 2

\* Defaults of the strategy parameters and the kelly allocation, in the source.
DefaultStopLossPct == 1
DefaultTakeProfitPct == 2
KellyNum == 2
KellyDen == 100

Symbol == "NIFTY50"
NoTime == 0
Signals == {"BUY", "SELL", "HOLD"}
ClosePrices == {90 * Unit, 100 * Unit, 110 * Unit}

VARIABLES
    config,           \* Backtester.config (BacktestConfig)
    current_capital,  \* Backtester.current_capital
    positions,        \* Backtester.positions: symbol -> open trade
    trades,           \* Backtester.trades: closed trades, in closing order
    equity_curve,     \* Backtester.equity_curve: <<timestamp, equity>> per bar
    data,             \* run_backtest: the bars load_data returned
    strategy_func,    \* run_backtest: the strategy, as signal per history length
    idx,              \* run_backtest: index label of the bar being processed
    signal,           \* run_backtest: the signal of the current bar
    calls,            \* the histories strategy_func has been called with
    pc,               \* position inside run_backtest
    result,           \* the BacktestResult run_backtest returned
    raised,           \* the exception that escaped run_backtest, or "none"
    runs,             \* number of run_backtest calls made on this Backtester
    prev,             \* the previous completed call: its inputs, result, ledger
    data_provider,    \* Backtester.data_provider with its backing store
    request,          \* run_backtest: symbol, start_date, end_date of the call
    returned,         \* the BacktestResult objects handed to the caller so far
    other             \* a second Backtester, while the first one is running

\* What lies outside the Backtester at work.
envVars == <<data_provider, request, returned, other>>

vars == <<config, current_capital, positions, trades, equity_curve, data,
          strategy_func, idx, signal, calls, pc, result, raised, runs, prev,
          data_provider, request, returned, other>>

----------------------------------------------------------------------------
\* Helpers for the Python values the code uses.

\* int(n / d) for d > 0: Python's int() truncates toward zero.
Trunc(n, d) == IF n >= 0 THEN n \div d ELSE -((-n) \div d)

\* x * p for a percentage p given in 1/PctDen.
Pct(x, p) == (x * p) \div PctDen

EmptyMap == [k \in {} |-> 0]

\* dict.get(key, default)
DictGet(d, key, default) == IF key \in DOMAIN d THEN d[key] ELSE default

\* d[key] = value
DictPut(d, key, value) ==
    [k \in (DOMAIN d) \cup {key} |-> IF k = key THEN value ELSE d[k]]

\* del d[key]
DictDel(d, key) == [k \in (DOMAIN d) \ {key} |-> d[k]]

RECURSIVE SumSeq(_)
SumSeq(s) == IF s = <<>> THEN 0 ELSE Head(s) + SumSeq(Tail(s))

RECURSIVE SelectPnl(_, _)
\* [t.pnl for t in trades], kept where sign * pnl > 0 (sign 0 keeps all)
SelectPnl(ts, sign) ==
    IF ts = <<>> THEN <<>>
    ELSE LET p == Head(ts).pnl
             rest == SelectPnl(Tail(ts), sign)
         IN IF sign = 0 \/ sign * p > 0 THEN <<p>> \o rest ELSE rest

----------------------------------------------------------------------------
\* BacktestConfig values the model draws from.

BacktestConfig(ic, cpt, cpct, spct, mode, psize, sl, tp) ==
    [initial_capital |-> ic, commission_per_trade |-> cpt,
     commission_pct |-> cpct, slippage_pct |-> spct,
     position_sizing |-> mode, position_size |-> psize,
     enable_stop_loss |-> sl, enable_take_profit |-> tp]

\* position_size per sizing mode, in 1/PctDen: 10 units when fixed, 5 % when
\* a percentage; the other modes do not read it (the dataclass default 1.0).
SizeOf(mode) ==
    CASE mode = "fixed" -> 10 * PctDen
      [] mode = "percentage" -> 1
      [] OTHER -> PctDen

\* Cost settings <<commission_per_trade, commission_pct, slippage_pct>>.
CostProfiles == {<<0, 0, 0>>, <<0, 0, 1>>, <<0, 1, 0>>, <<20, 0, 0>>, <<20, 1, 1>>}

\* Fixed sizing under every capital, cost profile and exit setting; the
\* budget modes with the capital that affords a unit, without the flat fee;
\* and the settings under which sizing always yields 0.
Configs ==
    { BacktestConfig(ic * Unit, k[1] * Unit, k[2], k[3], "fixed",
                     SizeOf("fixed"), sl, tp) :
        ic \in {1000, 10000}, k \in CostProfiles, sl \in BOOLEAN, tp \in BOOLEAN }
    \cup
    { BacktestConfig(10000 * Unit, 0, k[2], k[3], mode, SizeOf(mode), x, x) :
        k \in {p \in CostProfiles : p[1] = 0},
        mode \in {"percentage", "kelly"}, x \in BOOLEAN }
    \cup
    { BacktestConfig(1000 * Unit, 0, 0, 0, mode, SizeOf(mode), x, x) :
        mode \in {"percentage", "kelly"}, x \in BOOLEAN }
    \cup
    { BacktestConfig(10000 * Unit, 0, 0, 0, "martingale", SizeOf("martingale"), x, x) :
        x \in BOOLEAN }

\* A BacktestTrade as _execute_buy creates it.
BacktestTrade(timestamp, symbol, price, quantity, commission, slippage) ==
    [entry_time |-> timestamp, exit_time |-> NoTime, symbol |-> symbol,
     action |-> "BUY", entry_price |-> price, exit_price |-> 0,
     quantity |-> quantity, pnl |-> 0, commission |-> commission,
     slippage |-> slippage, status |-> "OPEN", notes |-> ""]

\* The ledger as one value, for the methods that update it.
Ledger(cap, pos, trd) ==
    [current_capital |-> cap, positions |-> pos, trades |-> trd]

----------------------------------------------------------------------------
\* Backtester._calculate_position_size.  With a close of 0 the percentage
\* and kelly modes divide by zero: position_value / price is inf or nan and
\* int() raises (OverflowError, or ValueError for nan).

PositionSizeRaises(cfg, price) ==
    /\ cfg.position_sizing \in {"percentage", "kelly"}
    /\ price = 0

calculate_position_size(cfg, cap, price) ==
    CASE cfg.position_sizing = "fixed" ->
            Trunc(cfg.position_size, PctDen)
      [] cfg.position_sizing = "percentage" ->
            Trunc(cap * cfg.position_size, PctDen * price)
      [] cfg.position_sizing = "kelly" ->
            Trunc(cap * KellyNum, KellyDen * price)
      [] OTHER -> 0

\* Mutant of execute_buy: a quantity of 0 is not turned away.
execute_buy_NoZeroCheck(L, cfg, symbol, timestamp, price) ==
    LET quantity == calculate_position_size(cfg, L.current_capital, price)
        gross_value == price * quantity
        commission == cfg.commission_per_trade + Pct(gross_value, cfg.commission_pct)
        slippage == Pct(gross_value, cfg.slippage_pct)
        total_cost == gross_value + commission + slippage
        trade == BacktestTrade(timestamp, symbol,
                               price + Pct(price, cfg.slippage_pct),
                               quantity, commission, slippage)
    IN  IF total_cost > L.current_capital THEN L
        ELSE [L EXCEPT !.positions = DictPut(@, symbol, trade),
                       !.current_capital = @ - total_cost]

\* Mutant of execute_buy: the order is filled whatever the cash at hand.
execute_buy_NoCapitalCheck(L, cfg, symbol, timestamp, price) ==
    LET quantity == calculate_position_size(cfg, L.current_capital, price)
        gross_value == price * quantity
        commission == cfg.commission_per_trade + Pct(gross_value, cfg.commission_pct)
        slippage == Pct(gross_value, cfg.slippage_pct)
        total_cost == gross_value + commission + slippage
        trade == BacktestTrade(timestamp, symbol,
                               price + Pct(price, cfg.slippage_pct),
                               quantity, commission, slippage)
    IN  IF quantity = 0 THEN L
        ELSE [L EXCEPT !.positions = DictPut(@, symbol, trade),
                       !.current_capital = @ - total_cost]

\* Mutant of execute_sell: the entry commission is added back to the P&L
\* instead of being charged to it.
execute_sell_RefundsEntryCommission(L, cfg, symbol, timestamp, price, forced) ==
    IF symbol \notin DOMAIN L.positions THEN L
    ELSE
    LET position == L.positions[symbol]
        exit_price == price - Pct(price, cfg.slippage_pct)
        gross_value == exit_price * position.quantity
        commission == cfg.commission_per_trade + Pct(gross_value, cfg.commission_pct)
        slippage == Pct(gross_value, cfg.slippage_pct)
        entry_value == position.entry_price * position.quantity
        pnl == gross_value - entry_value - commission - slippage + position.commission
        closed == [position EXCEPT !.exit_time = timestamp,
                                   !.exit_price = exit_price,
                                   !.pnl = pnl,
                                   !.status = "CLOSED",
                                   !.notes = IF forced THEN "Forced close"
                                             ELSE "Normal exit"]
    IN  [current_capital |-> L.current_capital + gross_value - commission - slippage,
         positions |-> DictDel(L.positions, symbol),
         trades |-> Append(L.trades, closed)]

\* Mutant of execute_buy: the trade records the bar close as its entry price,
\* without the slippage.
execute_buy_UnslippedEntry(L, cfg, symbol, timestamp, price) ==
    LET quantity == calculate_position_size(cfg, L.current_capital, price)
        gross_value == price * quantity
        commission == cfg.commission_per_trade + Pct(gross_value, cfg.commission_pct)
        slippage == Pct(gross_value, cfg.slippage_pct)
        total_cost == gross_value + commission + slippage
        trade == BacktestTrade(timestamp, symbol, price,
                               quantity, commission, slippage)
    IN  IF quantity = 0 THEN L
        ELSE IF total_cost > L.current_capital THEN L
        ELSE [L EXCEPT !.positions = DictPut(@, symbol, trade),
                       !.current_capital = @ - total_cost]

\* Mutant of execute_buy: the cash at hand is compared with the gross value
\* of the order, not with its total cost.
execute_buy_ChecksGrossOnly(L, cfg, symbol, timestamp, price) ==
    LET quantity == calculate_position_size(cfg, L.current_capital, price)
        gross_value == price * quantity
        commission == cfg.commission_per_trade + Pct(gross_value, cfg.commission_pct)
        slippage == Pct(gross_value, cfg.slippage_pct)
        total_cost == gross_value + commission + slippage
        trade == BacktestTrade(timestamp, symbol,
                               price + Pct(price, cfg.slippage_pct),
                               quantity, commission, slippage)
    IN  IF quantity = 0 THEN L
        ELSE IF gross_value > L.current_capital THEN L
        ELSE [L EXCEPT !.positions = DictPut(@, symbol, trade),
                       !.current_capital = @ - total_cost]

\* Backtester._execute_buy
execute_buy(L, cfg, symbol, timestamp, price) ==
    LET quantity == calculate_position_size(cfg, L.current_capital, price)
        gross_value == price * quantity
        commission == cfg.commission_per_trade + Pct(gross_value, cfg.commission_pct)
        slippage == Pct(gross_value, cfg.slippage_pct)
        total_cost == gross_value + commission + slippage
        trade == BacktestTrade(timestamp, symbol,
                               price + Pct(price, cfg.slippage_pct),
                               quantity, commission, slippage)
    IN  IF quantity = 0 THEN L
        ELSE IF total_cost > L.current_capital THEN L
        ELSE [L EXCEPT !.positions = DictPut(@, symbol, trade),
                       !.current_capital = @ - total_cost]

\* Mutant of execute_sell: the cash is credited with the P&L of the trade
\* instead of the proceeds of the sale.
execute_sell_CreditsPnl(L, cfg, symbol, timestamp, price, forced) ==
    IF symbol \notin DOMAIN L.positions THEN L
    ELSE
    LET position == L.positions[symbol]
        exit_price == price - Pct(price, cfg.slippage_pct)
        gross_value == exit_price * position.quantity
        commission == cfg.commission_per_trade + Pct(gross_value, cfg.commission_pct)
        slippage == Pct(gross_value, cfg.slippage_pct)
        entry_value == position.entry_price * position.quantity
        pnl == gross_value - entry_value - commission - slippage - position.commission
        closed == [position EXCEPT !.exit_time = timestamp,
                                   !.exit_price = exit_price,
                                   !.pnl = pnl,
                                   !.status = "CLOSED",
                                   !.notes = IF forced THEN "Forced close"
                                             ELSE "Normal exit"]
    IN  [current_capital |-> L.current_capital + pnl,
         positions |-> DictDel(L.positions, symbol),
         trades |-> Append(L.trades, closed)]

\* Backtester._execute_sell
execute_sell(L, cfg, symbol, timestamp, price, forced) ==
    IF symbol \notin DOMAIN L.positions THEN L
    ELSE
    LET position == L.positions[symbol]
        exit_price == price - Pct(price, cfg.slippage_pct)
        gross_value == exit_price * position.quantity
        commission == cfg.commission_per_trade + Pct(gross_value, cfg.commission_pct)
        slippage == Pct(gross_value, cfg.slippage_pct)
        entry_value == position.entry_price * position.quantity
        pnl == gross_value - entry_value - commission - slippage - position.commission
        closed == [position EXCEPT !.exit_time = timestamp,
                                   !.exit_price = exit_price,
                                   !.pnl = pnl,
                                   !.status = "CLOSED",
                                   !.notes = IF forced THEN "Forced close"
                                             ELSE "Normal exit"]
    IN  [current_capital |-> L.current_capital + gross_value - commission - slippage,
         positions |-> DictDel(L.positions, symbol),
         trades |-> Append(L.trades, closed)]

\* Mutant of check_exit_conditions: the method returns after the stop-loss
\* block, so the take-profit target is never looked at.
check_exit_conditions_StopOnly(L, cfg, symbol, timestamp, current_price, params) ==
    IF symbol \notin DOMAIN L.positions THEN L
    ELSE
    LET position == L.positions[symbol]
        stop_loss_pct == DictGet(params, "stop_loss_pct", DefaultStopLossPct)
        stop_price == position.entry_price - Pct(position.entry_price, stop_loss_pct)
    IN  IF cfg.enable_stop_loss /\ current_price <= stop_price
        THEN execute_sell(L, cfg, symbol, timestamp, current_price, FALSE)
        ELSE L

\* Mutant of check_exit_conditions: the stop price is taken above the entry
\* price, entry_price * (1 + stop_loss_pct).
check_exit_conditions_StopAboveEntry(L, cfg, symbol, timestamp, current_price, params) ==
    IF symbol \notin DOMAIN L.positions THEN L
    ELSE
    LET position == L.positions[symbol]
        stop_loss_pct == DictGet(params, "stop_loss_pct", DefaultStopLossPct)
        stop_price == position.entry_price + Pct(position.entry_price, stop_loss_pct)
        take_profit_pct == DictGet(params, "take_profit_pct", DefaultTakeProfitPct)
        target_price == position.entry_price + Pct(position.entry_price, take_profit_pct)
    IN  IF cfg.enable_stop_loss /\ current_price <= stop_price
        THEN execute_sell(L, cfg, symbol, timestamp, current_price, FALSE)
        ELSE IF cfg.enable_take_profit /\ current_price >= target_price
        THEN execute_sell(L, cfg, symbol, timestamp, current_price, FALSE)
        ELSE L

\* Backtester._check_exit_conditions.  The note the method writes before it
\* calls _execute_sell is overwritten there, so it leaves no trace.
check_exit_conditions(L, cfg, symbol, timestamp, current_price, params) ==
    IF symbol \notin DOMAIN L.positions THEN L
    ELSE
    LET position == L.positions[symbol]
        stop_loss_pct == DictGet(params, "stop_loss_pct", DefaultStopLossPct)
        stop_price == position.entry_price - Pct(position.entry_price, stop_loss_pct)
        take_profit_pct == DictGet(params, "take_profit_pct", DefaultTakeProfitPct)
        target_price == position.entry_price + Pct(position.entry_price, take_profit_pct)
    IN  IF cfg.enable_stop_loss /\ current_price <= stop_price
        THEN execute_sell(L, cfg, symbol, timestamp, current_price, FALSE)
        ELSE IF cfg.enable_take_profit /\ current_price >= target_price
        THEN execute_sell(L, cfg, symbol, timestamp, current_price, FALSE)
        ELSE L

RECURSIVE SumUnrealized(_, _, _)
SumUnrealized(pos, syms, current_price) ==
    IF syms = {} THEN 0
    ELSE LET s == CHOOSE x \in syms : TRUE
         IN (current_price - pos[s].entry_price) * pos[s].quantity
            + SumUnrealized(pos, syms \ {s}, current_price)

\* Mutant of calculate_current_equity: the open positions are left out.
calculate_current_equity_CashOnly(L, current_price) == L.current_capital

\* Backtester._calculate_current_equity
calculate_current_equity(L, current_price) ==
    L.current_capital + SumUnrealized(L.positions, DOMAIN L.positions, current_price)

----------------------------------------------------------------------------
\* Backtester._calculate_results (the counts and P&L figures; the risk
\* ratios are computed from the same two lists).

NoResult == [strategy_name |-> "<no result>"]

\* BacktestResult with every optional field at its dataclass default.
BacktestResult(strategy_name, initial_capital, final_capital, total_bars) ==
    [strategy_name |-> strategy_name,
     initial_capital |-> initial_capital, final_capital |-> final_capital,
     total_trades |-> 0, winning_trades |-> 0, losing_trades |-> 0,
     total_pnl |-> 0, gross_profit |-> 0, gross_loss |-> 0, net_profit |-> 0,
     total_commission |-> 0, total_slippage |-> 0,
     trades |-> <<>>, equity_curve |-> <<>>, total_bars |-> total_bars]

RECURSIVE SumField(_, _)
SumField(ts, f) == IF ts = <<>> THEN 0 ELSE Head(ts)[f] + SumField(Tail(ts), f)

Abs(x) == IF x < 0 THEN -x ELSE x

calculate_results(cfg, L, curve, strategy_name, total_bars) ==
    LET total_trades == Len(L.trades)
        total_pnl == SumField(L.trades, "pnl")
        total_commission == SumField(L.trades, "commission")
        total_slippage == SumField(L.trades, "slippage")
        wins == SelectPnl(L.trades, 1)
        losses == SelectPnl(L.trades, -1)
    IN  IF total_trades = 0
        THEN BacktestResult(strategy_name, cfg.initial_capital,
                            L.current_capital, total_bars)
        ELSE [strategy_name |-> strategy_name,
              initial_capital |-> cfg.initial_capital,
              final_capital |-> L.current_capital,
              total_trades |-> total_trades,
              winning_trades |-> Len(wins),
              losing_trades |-> Len(losses),
              total_pnl |-> total_pnl,
              gross_profit |-> SumSeq(wins),
              gross_loss |-> Abs(SumSeq(losses)),
              net_profit |-> total_pnl - total_commission - total_slippage,
              total_commission |-> total_commission,
              total_slippage |-> total_slippage,
              trades |-> L.trades,
              equity_curve |-> curve,
              total_bars |-> total_bars]

----------------------------------------------------------------------------
\* HistoricalDataProvider.load_data, as run_backtest sees it: a frame of bars
\* in timestamp order under a default RangeIndex (labels 0 .. n-1).

Bar(t, c) == [timestamp |-> t, close |-> c]

Frames ==
    UNION { { [i \in 1..n |-> Bar(i, c[i])] : c \in [1..n -> ClosePrices] } :
            n \in 0..MaxBars }

\* data.iloc[:k]
ILoc(frame, k) == SubSeq(frame, 1, IF k < Len(frame) THEN k ELSE Len(frame))

\* Mutant of HistoricalData: the slice runs one bar past the current one.
HistoricalData_Ahead(frame, i) == ILoc(frame, i + 2)

\* The slice of the frame run_backtest hands to strategy_func at label i.
HistoricalData(frame, i) == ILoc(frame, i + 1)

\* strategy_func(historical_data, params): a pure function of the history;
\* over one frame the histories differ in length, so it is a signal per length.
StrategyFuncs(frame) == [1..Len(frame) -> Signals]

StrategyCall(f, historical_data) == f[Len(historical_data)]

StrategyParams == EmptyMap
StrategyName == "strategy_func"

NoPrev == [runs |-> 0]

\* What is kept of a completed call, for comparing it with the next one.
Completed(n, cfg, frame, f, res, L, curve) ==
    [runs |-> n, config |-> cfg, data |-> frame, strategy_func |-> f,
     result |-> res, current_capital |-> L.current_capital,
     positions |-> L.positions, trades |-> L.trades, equity_curve |-> curve]

TheLedger == Ledger(current_capital, positions, trades)

----------------------------------------------------------------------------
\* Backtester.__init__: the state after construction with config cfg.

NewLedger(cfg) == Ledger(cfg.initial_capital, EmptyMap, <<>>)

InitWith(cfgs) ==
    /\ config \in cfgs
    /\ current_capital = NewLedger(config).current_capital
    /\ positions = NewLedger(config).positions
    /\ trades = NewLedger(config).trades
    /\ equity_curve = <<>>
    /\ data = <<>>
    /\ strategy_func = <<>>
    /\ idx = 0
    /\ signal = ""
    /\ calls = <<>>
    /\ pc = "idle"
    /\ result = NoResult
    /\ raised = "none"
    /\ runs = 0
    /\ prev = NoPrev

\* The provider is left open (load_data may return any frame), no result has
\* been handed out and there is no second Backtester.
AnyProvider == [data_source |-> "any"]
NoRequest == [symbol |-> Symbol]
NoInstance == [runs |-> 0]

InitEnv ==
    /\ data_provider = AnyProvider
    /\ request = NoRequest
    /\ returned = <<>>
    /\ other = NoInstance

Init == InitWith(Configs) /\ InitEnv

\* Mutant of ResetState: current_capital is not set back.
ResetState_KeepsCapital(cfg, L, curve) ==
    [current_capital |-> L.current_capital, positions |-> EmptyMap,
     trades |-> <<>>, equity_curve |-> <<>>]

\* run_backtest, "Reset state": the ledger and curve the loop starts from.
ResetState(cfg, L, curve) ==
    [current_capital |-> cfg.initial_capital, positions |-> EmptyMap,
     trades |-> <<>>, equity_curve |-> <<>>]

\* Mutant of RunBacktest: with no data the result is computed from the ledger
\* as the instance holds it.
RunBacktest_EmptyFromLedger(frame, f) ==
    /\ pc \in {"idle", "done"}
    /\ runs' = runs + 1
    /\ data' = frame
    /\ strategy_func' = f
    /\ calls' = <<>>
    /\ idx' = 0
    /\ signal' = ""
    /\ IF frame = <<>>
       THEN /\ result' = calculate_results(config, TheLedger, equity_curve,
                                           "Unknown", 0)
            /\ pc' = "done"
            /\ UNCHANGED <<current_capital, positions, trades, equity_curve>>
       ELSE LET r == ResetState(config, TheLedger, equity_curve)
            IN /\ current_capital' = r.current_capital
               /\ positions' = r.positions
               /\ trades' = r.trades
               /\ equity_curve' = r.equity_curve
               /\ result' = NoResult
               /\ pc' = "bar"
    /\ UNCHANGED <<config, raised>>

\* run_backtest up to the loop: load the data, return at once when there is
\* none, otherwise reset the ledger.
RunBacktest(frame, f) ==
    /\ pc \in {"idle", "done"}
    /\ runs' = runs + 1
    /\ data' = frame
    /\ strategy_func' = f
    /\ calls' = <<>>
    /\ idx' = 0
    /\ signal' = ""
    /\ IF frame = <<>>
       THEN /\ result' = BacktestResult("Unknown", config.initial_capital,
                                        config.initial_capital, 0)
            /\ pc' = "done"
            /\ UNCHANGED <<current_capital, positions, trades, equity_curve>>
       ELSE LET r == ResetState(config, TheLedger, equity_curve)
            IN /\ current_capital' = r.current_capital
               /\ positions' = r.positions
               /\ trades' = r.trades
               /\ equity_curve' = r.equity_curve
               /\ result' = NoResult
               /\ pc' = "bar"
    /\ UNCHANGED <<config, raised>>

\* The first call on a new Backtester, with any frame and strategy.
FirstCall ==
    /\ pc = "idle"
    /\ prev = NoPrev
    /\ \E frame \in Frames : \E f \in StrategyFuncs(frame) : RunBacktest(frame, f)
    /\ UNCHANGED prev

\* Loop body, first half: record the equity, call the strategy.
BarBegin ==
    /\ pc = "bar"
    /\ idx < Len(data)
    /\ LET row == data[idx + 1]
           equity == calculate_current_equity(TheLedger, row.close)
           historical_data == HistoricalData(data, idx)
       IN /\ equity_curve' = Append(equity_curve, <<row.timestamp, equity>>)
          /\ signal' = StrategyCall(strategy_func, historical_data)
          /\ calls' = Append(calls, historical_data)
    /\ pc' = "signal"
    /\ UNCHANGED <<config, current_capital, positions, trades, data,
                   strategy_func, idx, result, raised, runs, prev>>

\* Mutant of ApplySignal: BUY does not look for an open position.
ApplySignal_Rebuy(L, cfg, sig, symbol, row) ==
    IF sig = "BUY"
    THEN execute_buy(L, cfg, symbol, row.timestamp, row.close)
    ELSE IF sig = "SELL" /\ symbol \in DOMAIN L.positions
    THEN execute_sell(L, cfg, symbol, row.timestamp, row.close, FALSE)
    ELSE L

\* Mutant of ApplySignal: every signal other than SELL is taken as BUY.
ApplySignal_HoldBuys(L, cfg, sig, symbol, row) ==
    IF sig # "SELL" /\ symbol \notin DOMAIN L.positions
    THEN execute_buy(L, cfg, symbol, row.timestamp, row.close)
    ELSE IF sig = "SELL" /\ symbol \in DOMAIN L.positions
    THEN execute_sell(L, cfg, symbol, row.timestamp, row.close, FALSE)
    ELSE L

\* The ledger after the signal of the bar is acted on.
ApplySignal(L, cfg, sig, symbol, row) ==
    IF sig = "BUY" /\ symbol \notin DOMAIN L.positions
    THEN execute_buy(L, cfg, symbol, row.timestamp, row.close)
    ELSE IF sig = "SELL" /\ symbol \in DOMAIN L.positions
    THEN execute_sell(L, cfg, symbol, row.timestamp, row.close, FALSE)
    ELSE L

\* Loop body, second half: execute the signal.
ExecuteSignal ==
    /\ pc = "signal"
    /\ LET row == data[idx + 1]
       IN IF /\ signal = "BUY"
             /\ Symbol \notin DOMAIN positions
             /\ PositionSizeRaises(config, row.close)
          THEN /\ pc' = "raised"
               /\ raised' = "OverflowError"
               /\ UNCHANGED <<current_capital, positions, trades>>
          ELSE LET L == ApplySignal(TheLedger, config, signal, Symbol, row)
               IN /\ current_capital' = L.current_capital
                  /\ positions' = L.positions
                  /\ trades' = L.trades
                  /\ pc' = "exit_check"
                  /\ UNCHANGED raised
    /\ UNCHANGED <<config, equity_curve, data, strategy_func, idx, signal,
                   calls, result, runs, prev>>

\* The ledger after the stop-loss / take-profit step of the bar.
ApplyExitCheck(L, cfg, symbol, row, params) ==
    IF cfg.enable_stop_loss \/ cfg.enable_take_profit
    THEN check_exit_conditions(L, cfg, symbol, row.timestamp, row.close, params)
    ELSE L

\* Loop body, last part: stop loss / take profit, then on to the next bar.
CheckExit ==
    /\ pc = "exit_check"
    /\ LET row == data[idx + 1]
           L == ApplyExitCheck(TheLedger, config, Symbol, row, StrategyParams)
       IN /\ current_capital' = L.current_capital
          /\ positions' = L.positions
          /\ trades' = L.trades
    /\ idx' = idx + 1
    /\ pc' = "bar"
    /\ UNCHANGED <<config, equity_curve, data, strategy_func, signal, calls,
                   result, raised, runs, prev>>

\* Mutant of CloseAll: the positions left open are not closed.
CloseAll_Skip(L, cfg, syms, final_time, final_price) == L

RECURSIVE CloseAll_Unforced(_, _, _, _, _)
\* Mutant of CloseAll: the positions left open are sold as on a signal.
CloseAll_Unforced(L, cfg, syms, final_time, final_price) ==
    IF syms = {} THEN L
    ELSE LET s == CHOOSE x \in syms : TRUE
         IN CloseAll_Unforced(execute_sell(L, cfg, s, final_time, final_price, FALSE),
                              cfg, syms \ {s}, final_time, final_price)

RECURSIVE CloseAll(_, _, _, _, _)
\* for symbol in list(self.positions.keys()): _execute_sell(..., forced=True)
CloseAll(L, cfg, syms, final_time, final_price) ==
    IF syms = {} THEN L
    ELSE LET s == CHOOSE x \in syms : TRUE
         IN CloseAll(execute_sell(L, cfg, s, final_time, final_price, TRUE),
                     cfg, syms \ {s}, final_time, final_price)

\* After the loop: close what is open, compute the result, return.
Finish ==
    /\ pc = "bar"
    /\ idx = Len(data)
    /\ LET last == data[Len(data)]
           L == CloseAll(TheLedger, config, DOMAIN positions,
                         last.timestamp, last.close)
       IN /\ current_capital' = L.current_capital
          /\ positions' = L.positions
          /\ trades' = L.trades
          /\ result' = calculate_results(config, L, equity_curve,
                                         StrategyName, Len(data))
    /\ pc' = "done"
    /\ UNCHANGED <<config, equity_curve, data, strategy_func, idx, signal,
                   calls, raised, runs, prev>>

Next ==
    \/ FirstCall /\ UNCHANGED envVars
    \/ BarBegin /\ UNCHANGED envVars
    \/ ExecuteSignal /\ UNCHANGED envVars
    \/ CheckExit /\ UNCHANGED envVars
    \/ Finish /\ UNCHANGED envVars

Spec == Init /\ [][Next]_vars

----------------------------------------------------------------------------
\* Properties of one run_backtest call (specification Spec).

\* The timestamp and close of the bar the loop is at, and of the bar before.
CurrentBar == data[idx + 1]
ProcessedBar == data[idx]

LastEquity == equity_curve[Len(equity_curve)][2]

\* Sum of the unrealized P&L of the open positions at a close.
UnrealizedAt(close) ==
    IF Symbol \in DOMAIN positions
    THEN (close - positions[Symbol].entry_price) * positions[Symbol].quantity
    ELSE 0

\* Some fill (an entry or an exit) happened at time t.
FilledAt(t) ==
    \/ \E s \in DOMAIN positions : positions[s].entry_time = t
    \/ \E k \in 1..Len(trades) : trades[k].entry_time = t \/ trades[k].exit_time = t

\* C1: after run_backtest returns from a run over a non-empty frame, positions
\* is empty and every trade of the result is CLOSED with an exit_time.
C1_ExhaustiveClosure ==
    (pc = "done" /\ data # <<>>) =>
        /\ DOMAIN positions = {}
        /\ \A k \in 1..Len(result.trades) :
              /\ result.trades[k].status = "CLOSED"
              /\ result.trades[k].exit_time # NoTime

\* C1 witness: a run returned after its last bar left a position to force-close.
C1_Witness ==
    /\ pc = "done"
    /\ data # <<>>
    /\ \E k \in 1..Len(result.trades) : result.trades[k].notes = "Forced close"

\* C2: the symbol never has more than one open trade, and a BUY signal on a
\* bar where it already has one leaves positions, trades and current_capital
\* as they were.
C2_SinglePosition ==
    [][ /\ Cardinality(DOMAIN positions') <= 1
        /\ \A k \in 1..Len(trades') : trades'[k].status = "CLOSED"
        /\ (pc = "signal" /\ signal = "BUY" /\ Symbol \in DOMAIN positions) =>
              /\ positions' = positions
              /\ trades' = trades
              /\ current_capital' = current_capital ]_vars

\* C2 witness: a BUY signal was handled on a bar after the one that opened the
\* position.
C2_Witness ==
    /\ pc = "exit_check"
    /\ signal = "BUY"
    /\ Symbol \in DOMAIN positions
    /\ positions[Symbol].entry_time < CurrentBar.timestamp

C4_ConservationAfterBar ==
    (pc = "bar" /\ idx > 0) =>
        current_capital + UnrealizedAt(ProcessedBar.close) = LastEquity

\* C4 amended: the identity holds when the bar's equity has just been
\* recorded, before its signal is handled, and still holds once the bar has
\* been processed if no fill happened in that bar.
C4_ConservationWhenRecorded ==
    /\ pc = "signal" =>
          current_capital + UnrealizedAt(CurrentBar.close) = LastEquity
    /\ (pc = "bar" /\ idx > 0 /\ ~FilledAt(ProcessedBar.timestamp)) =>
          current_capital + UnrealizedAt(ProcessedBar.close) = LastEquity

\* C4 witness: a bar was processed without a fill while a position opened
\* earlier was carried at a gain or loss.
C4_Witness ==
    /\ pc = "bar"
    /\ idx > 1
    /\ ~FilledAt(ProcessedBar.timestamp)
    /\ UnrealizedAt(ProcessedBar.close) # 0

\* The closes of a frame, in order.
Closes(frame) == [i \in 1..Len(frame) |-> frame[i].close]

\* The configuration of the example: capital 10000, fixed sizing of 10 units,
\* no commission, no slippage.
ExampleConfig(cfg) ==
    /\ cfg.initial_capital = 10000 * Unit
    /\ cfg.position_sizing = "fixed"
    /\ cfg.position_size = 10 * PctDen
    /\ cfg.commission_per_trade = 0
    /\ cfg.commission_pct = 0
    /\ cfg.slippage_pct = 0

\* One closed trade, bought at 110 and sold at 90, 10 units: P&L -200, final
\* capital 9800.
ExampleOutcome(res) ==
    /\ res.total_trades = 1
    /\ Len(res.trades) = 1
    /\ res.trades[1].status = "CLOSED"
    /\ res.trades[1].entry_price = 110 * Unit
    /\ res.trades[1].exit_price = 90 * Unit
    /\ res.trades[1].pnl = (90 - 110) * 10 * Unit
    /\ res.final_capital = 9800 * Unit

ExampleRun(sigs) ==
    /\ pc = "done"
    /\ ExampleConfig(config)
    /\ Closes(data) = <<100 * Unit, 110 * Unit, 90 * Unit>>
    /\ strategy_func = sigs

\* C8 as claimed: closes 100, 110, 90 with BUY on the first bar, HOLD on the
\* second and SELL on the third give the example's outcome.
C8_ExampleAsClaimed == ExampleRun(<<"BUY", "HOLD", "SELL">>) => ExampleOutcome(result)

\* C8 amended: the entry fills at the close of the bar that returned BUY, so
\* the example's outcome is that of HOLD on the first bar, BUY on the second
\* (close 110) and SELL on the third (close 90).
C8_ExampleBuyAtSecondBar ==
    ExampleRun(<<"HOLD", "BUY", "SELL">>) => ExampleOutcome(result)

\* C8 witness: the amended example has been run to its end.
C8_Witness == ExampleRun(<<"HOLD", "BUY", "SELL">>) /\ result.total_trades = 1

\* C9: a strategy that returns HOLD on every bar ends with no trades, the
\* initial capital and an equity curve that stays at the initial capital.
C9_AlwaysHold ==
    (pc = "done" /\ \A i \in 1..Len(strategy_func) : strategy_func[i] = "HOLD") =>
        /\ result.total_trades = 0
        /\ result.trades = <<>>
        /\ trades = <<>>
        /\ result.final_capital = config.initial_capital
        /\ current_capital = config.initial_capital
        /\ Len(equity_curve) = Len(data)
        /\ \A k \in 1..Len(equity_curve) : equity_curve[k][2] = config.initial_capital
        /\ \A k \in 1..Len(result.equity_curve) :
              result.equity_curve[k][2] = config.initial_capital

\* C9 witness: an all-HOLD run over several bars whose closes moved.
C9_Witness ==
    /\ pc = "done"
    /\ Len(data) >= 2
    /\ data[1].close # data[2].close
    /\ \A i \in 1..Len(strategy_func) : strategy_func[i] = "HOLD"

\* The sizing mode is none of fixed / percentage / kelly.
UnknownSizing(cfg) == cfg.position_sizing \notin {"fixed", "percentage", "kelly"}

\* The budget of the percentage or kelly mode does not reach one unit.
BudgetBelowPrice(cfg, cap, price) ==
    \/ /\ cfg.position_sizing = "percentage"
       /\ Abs(cap * cfg.position_size) < PctDen * price
    \/ /\ cfg.position_sizing = "kelly"
       /\ Abs(cap * KellyNum) < KellyDen * price

\* A BUY signal is about to be handled with no position open and a sizing
\* that yields 0.
ZeroQuantityBuy ==
    /\ pc = "signal"
    /\ signal = "BUY"
    /\ Symbol \notin DOMAIN positions
    /\ \/ UnknownSizing(config)
       \/ BudgetBelowPrice(config, current_capital, CurrentBar.close)

\* C10: a BUY whose sizing yields quantity 0 opens no position, records no
\* trade, leaves current_capital alone and raises nothing; the loop goes on.
C10_ZeroQuantitySuppressed ==
    [][ ZeroQuantityBuy =>
          /\ positions' = positions
          /\ trades' = trades
          /\ current_capital' = current_capital
          /\ raised' = "none"
          /\ pc' = "exit_check" ]_vars

\* C10 witness: a BUY was suppressed because the close exceeds the budget of
\* the percentage mode.
C10_Witness ==
    /\ pc = "exit_check"
    /\ signal = "BUY"
    /\ config.position_sizing = "percentage"
    /\ BudgetBelowPrice(config, current_capital, CurrentBar.close)
    /\ DOMAIN positions = {}
    /\ current_capital = config.initial_capital

\* The same for a sizing mode the code does not know.
C10_WitnessUnknownMode ==
    /\ pc = "exit_check"
    /\ signal = "BUY"
    /\ UnknownSizing(config)
    /\ DOMAIN positions = {}
    /\ current_capital = config.initial_capital

\* The cost of buying quantity units at a close: the gross value, the flat
\* and proportional commission, and the slippage.
TotalCostOf(cfg, quantity, close) ==
    close * quantity + cfg.commission_per_trade
        + Pct(close * quantity, cfg.commission_pct)
        + Pct(close * quantity, cfg.slippage_pct)

\* The BUY of the current bar, sized on the cash at hand, costs more than
\* that cash.
CostExceedsCapital ==
    TotalCostOf(config,
                calculate_position_size(config, current_capital, CurrentBar.close),
                CurrentBar.close) > current_capital

\* A BUY signal is about to be handled with no position open, and its total
\* cost exceeds current_capital.
UnaffordableBuy ==
    /\ pc = "signal"
    /\ signal = "BUY"
    /\ Symbol \notin DOMAIN positions
    /\ ~PositionSizeRaises(config, CurrentBar.close)
    /\ CostExceedsCapital

\* C11: a BUY whose total cost (gross value + commission + slippage) exceeds
\* current_capital is skipped without raising: no position is opened, no trade
\* is recorded, current_capital is unchanged, and the loop goes on with the
\* rest of the bar and then the next bar.
C11_UnaffordableBuySkipped ==
    [][ /\ UnaffordableBuy =>
              /\ positions' = positions
              /\ trades' = trades
              /\ current_capital' = current_capital
              /\ raised' = "none"
              /\ pc' = "exit_check"
        /\ pc = "exit_check" => (pc' = "bar" /\ idx' = idx + 1) ]_vars

\* C11 witness: a BUY of a positive quantity was skipped for lack of cash and
\* the loop is at the rest of the bar, with bars still to come.
C11_Witness ==
    /\ pc = "exit_check"
    /\ signal = "BUY"
    /\ DOMAIN positions = {}
    /\ trades = <<>>
    /\ calculate_position_size(config, current_capital, CurrentBar.close) > 0
    /\ CostExceedsCapital
    /\ current_capital = config.initial_capital
    /\ idx + 1 < Len(data)

\* The position of the bar with timestamp t in the frame of the call.
BarIndex(t) == CHOOSE i \in 1..Len(data) : data[i].timestamp = t

\* A closed trade that the stop-loss / take-profit step closed: the signal of
\* its exit bar was not SELL, and it was not closed after the loop (a forced
\* close carries the timestamp of the last bar).
ClosedByExitCheck(tr) ==
    /\ strategy_func[BarIndex(tr.exit_time)] # "SELL"
    /\ pc = "done" => tr.exit_time # data[Len(data)].timestamp

\* The close of the exit bar of a trade was at or below its stop price.
StopWasHit(cfg, tr) ==
    /\ cfg.enable_stop_loss
    /\ data[BarIndex(tr.exit_time)].close
          <= tr.entry_price - Pct(tr.entry_price, DefaultStopLossPct)

\* C13: every trade closed by the stop-loss check is in the closed-trade list
\* (of the ledger, and of the result once the call has returned) with notes
\* "Stop loss", and every trade closed by the take-profit check with notes
\* "Take profit".
C13_ExitNotes ==
    /\ \A k \in 1..Len(trades) :
          ClosedByExitCheck(trades[k]) =>
              trades[k].notes = IF StopWasHit(config, trades[k])
                                THEN "Stop loss" ELSE "Take profit"
    /\ pc = "done" =>
          \A k \in 1..Len(result.trades) :
              ClosedByExitCheck(result.trades[k]) =>
                  result.trades[k].notes = IF StopWasHit(config, result.trades[k])
                                           THEN "Stop loss" ELSE "Take profit"

\* The loop has processed the last bar and a position is still open.
OpenAfterLastBar ==
    /\ pc = "bar"
    /\ idx = Len(data)
    /\ Symbol \in DOMAIN positions

\* C14: a position still open once the last bar has been processed is closed
\* exactly once before the result is computed: one trade is appended to the
\* closed-trade list, it is that position with exit_time the final bar's
\* timestamp, exit price the final close less slippage, and a note marking the
\* forced close; no position is left and the result counts the trade.
C14_ForcedCloseAtEnd ==
    [][ OpenAfterLastBar =>
          LET last == data[Len(data)]
              closed == trades'[Len(trades')]
          IN /\ pc' = "done"
             /\ Len(trades') = Len(trades) + 1
             /\ SubSeq(trades', 1, Len(trades)) = trades
             /\ closed.entry_time = positions[Symbol].entry_time
             /\ closed.entry_price = positions[Symbol].entry_price
             /\ closed.quantity = positions[Symbol].quantity
             /\ closed.status = "CLOSED"
             /\ closed.exit_time = last.timestamp
             /\ closed.exit_price = last.close - Pct(last.close, config.slippage_pct)
             /\ closed.notes = "Forced close"
             /\ DOMAIN positions' = {}
             /\ result'.trades = trades'
             /\ result'.total_trades = Len(trades) + 1 ]_vars

\* C14 witness: a run returned whose last trade was force-closed at the final
\* bar, below that bar's close because of slippage, after an earlier trade.
C14_Witness ==
    /\ pc = "done"
    /\ data # <<>>
    /\ result.total_trades >= 2
    /\ result.trades[Len(result.trades)].notes = "Forced close"
    /\ result.trades[Len(result.trades)].exit_time = data[Len(data)].timestamp
    /\ result.trades[Len(result.trades)].exit_price < data[Len(data)].close

\* C17: the result of a run over a non-empty frame carries one (timestamp,
\* equity) entry per bar processed, in bar order, so the length of
\* result.equity_curve equals result.total_bars, whether or not a trade was
\* closed during the run.
C17_ResultEquityPerBar ==
    (pc = "done" /\ data # <<>>) =>
        /\ result.total_bars = Len(data)
        /\ Len(result.equity_curve) = result.total_bars
        /\ \A k \in 1..Len(result.equity_curve) :
              result.equity_curve[k][1] = data[k].timestamp

\* The part of C17 that the ledger's own curve meets: one entry per bar
\* processed, in bar order, at every point of the loop.
LedgerEquityPerBar ==
    /\ pc = "bar" => Len(equity_curve) = idx
    /\ pc \in {"signal", "exit_check"} => Len(equity_curve) = idx + 1
    /\ \A k \in 1..Len(equity_curve) : equity_curve[k][1] = data[k].timestamp

\* The stop and target prices of an open or closed trade, from its
\* slippage-adjusted entry price and the default percentages.
StopPriceOf(tr) == tr.entry_price - Pct(tr.entry_price, DefaultStopLossPct)
TargetPriceOf(tr) == tr.entry_price + Pct(tr.entry_price, DefaultTakeProfitPct)

\* A close at which the enabled stop loss or take profit of a trade is hit.
ThresholdHit(cfg, tr, close) ==
    \/ cfg.enable_stop_loss /\ close <= StopPriceOf(tr)
    \/ cfg.enable_take_profit /\ close >= TargetPriceOf(tr)

\* C22: stop-loss and take-profit exits happen on the bar where the threshold
\* is hit, measured against the slippage-adjusted entry price: once a bar has
\* been processed no position is open whose entry_price * (1 - stop_loss_pct)
\* is at or above that bar's close while the stop loss is enabled, or whose
\* entry_price * (1 + take_profit_pct) is at or below it while the take profit
\* is enabled; and a position that hits its threshold when the step runs is
\* closed by that step, at that bar, whatever the signal.
C22_ExitOnThresholdBar ==
    [][ /\ (pc' = "bar" /\ idx' > 0) =>
              \A s \in DOMAIN positions' :
                  ~ThresholdHit(config, positions'[s], data[idx'].close)
        /\ ( /\ pc = "exit_check"
             /\ Symbol \in DOMAIN positions
             /\ ThresholdHit(config, positions[Symbol], CurrentBar.close) ) =>
              /\ DOMAIN positions' = {}
              /\ Len(trades') = Len(trades) + 1
              /\ trades'[Len(trades')].exit_time = CurrentBar.timestamp
              /\ trades'[Len(trades')].entry_time = positions[Symbol].entry_time ]_vars

\* C22 witness: a position opened on an earlier bar with slippage was closed
\* at its take-profit target on a bar whose signal was HOLD, with bars left.
C22_Witness ==
    /\ pc = "bar"
    /\ idx > 0
    /\ idx < Len(data)
    /\ config.slippage_pct > 0
    /\ strategy_func[idx] = "HOLD"
    /\ trades # <<>>
    /\ trades[Len(trades)].exit_time = ProcessedBar.timestamp
    /\ trades[Len(trades)].entry_time < ProcessedBar.timestamp
    /\ ProcessedBar.close >= TargetPriceOf(trades[Len(trades)])
    /\ ProcessedBar.close > StopPriceOf(trades[Len(trades)])

\* C27: whenever no position is open, current_capital equals initial_capital
\* plus the sum of pnl over the closed trades; so for the result of a run,
\* final_capital - initial_capital = total_pnl.
C27_RealizedPnlIdentity ==
    /\ DOMAIN positions = {} =>
          current_capital = config.initial_capital + SumField(trades, "pnl")
    /\ (pc = "done" /\ data # <<>>) =>
          /\ result.final_capital - result.initial_capital = result.total_pnl
          /\ result.total_pnl = SumField(result.trades, "pnl")

\* C27 witness: a run returned two closed trades made under a flat fee, a
\* proportional commission and slippage, with a total P&L other than 0.
C27_Witness ==
    /\ pc = "done"
    /\ data # <<>>
    /\ DOMAIN positions = {}
    /\ result.total_trades = 2
    /\ config.commission_per_trade > 0
    /\ config.commission_pct > 0
    /\ config.slippage_pct > 0
    /\ result.total_pnl # 0
    /\ result.final_capital # result.initial_capital

\* The run charges neither commission nor slippage.
ZeroCosts(cfg) ==
    /\ cfg.commission_per_trade = 0
    /\ cfg.commission_pct = 0
    /\ cfg.slippage_pct = 0

\* C24: every equity entry is the total portfolio value at the bar's close, so
\* opening a position does not lower the recorded equity: with zero commission
\* and zero slippage, when a BUY filled at bar i and bar i+1 closes at the
\* same price, the equity recorded at bar i+1 equals the one recorded at bar i.
C24_EntryKeepsEquity ==
    ( /\ pc = "signal"
      /\ idx >= 1
      /\ ZeroCosts(config)
      /\ Symbol \in DOMAIN positions
      /\ positions[Symbol].entry_time = ProcessedBar.timestamp
      /\ CurrentBar.close = ProcessedBar.close ) =>
        equity_curve[idx + 1][2] = equity_curve[idx][2]

\* The commission _execute_sell charged when it closed a trade, recomputed
\* from the exit price and quantity the trade records.
ExitCommissionOf(cfg, tr) ==
    cfg.commission_per_trade + Pct(tr.exit_price * tr.quantity, cfg.commission_pct)

RECURSIVE CommissionsCharged(_, _)
\* The commissions taken from current_capital for the fills of a list of
\* closed trades: one on each entry, one on each exit.
CommissionsCharged(cfg, ts) ==
    IF ts = <<>> THEN 0
    ELSE Head(ts).commission + ExitCommissionOf(cfg, Head(ts))
         + CommissionsCharged(cfg, Tail(ts))

\* C30: result.total_commission equals the commission deducted from capital
\* during the run, the sum of the commissions charged on the entry fill and
\* on the exit fill of each closed trade.
C30_TotalCommissionAllFills ==
    (pc = "done" /\ data # <<>>) =>
        result.total_commission = CommissionsCharged(config, result.trades)

\* The close at which a fill of the step about to be taken is made: the
\* current bar's inside the loop, the last bar's after it.
FillClose == IF pc = "bar" THEN data[Len(data)].close ELSE CurrentBar.close

\* cost(gross_value): the commission and the slippage of a fill.
CommissionOn(cfg, g) == cfg.commission_per_trade + Pct(g, cfg.commission_pct)
SlippageOn(cfg, g) == Pct(g, cfg.slippage_pct)

\* C23: the cost model is the same on entry and exit: for a fill at bar close
\* p with quantity q and gross value g = p * q, the commission is
\* commission_per_trade + g * commission_pct and the slippage g * slippage_pct,
\* and the cash moved is g plus (buy) or minus (sell) that commission and that
\* slippage, slippage being charged once per fill.
C23_SameCostBothSides ==
    [][ /\ (Symbol \notin DOMAIN positions /\ Symbol \in DOMAIN positions') =>
              LET q == positions'[Symbol].quantity
                  g == FillClose * q
              IN /\ positions'[Symbol].commission = CommissionOn(config, g)
                 /\ positions'[Symbol].slippage = SlippageOn(config, g)
                 /\ current_capital' = current_capital
                        - (g + CommissionOn(config, g) + SlippageOn(config, g))
        /\ (Symbol \in DOMAIN positions /\ Symbol \notin DOMAIN positions') =>
              LET q == positions[Symbol].quantity
                  g == FillClose * q
              IN current_capital' = current_capital
                        + (g - CommissionOn(config, g) - SlippageOn(config, g)) ]_vars

----------------------------------------------------------------------------
\* Several calls on one Backtester (specification SpecRerun): after a call
\* has returned, run_backtest is called again, for the same frame and
\* strategy or for a range that holds no data.

RerunConfigs ==
    { c \in Configs :
        /\ c.enable_stop_loss = c.enable_take_profit
        /\ c.initial_capital = 10000 * Unit
        /\ c.commission_per_trade = 0 => c.commission_pct = c.slippage_pct }

InitRerun == InitWith(RerunConfigs) /\ InitEnv

CallAgain ==
    /\ pc = "done"
    /\ runs < MaxRuns
    /\ prev' = Completed(runs, config, data, strategy_func, result,
                         TheLedger, equity_curve)
    /\ \E frame \in {data, <<>>} :
          RunBacktest(frame, IF frame = <<>> THEN <<>> ELSE strategy_func)

NextRerun ==
    \/ FirstCall /\ UNCHANGED envVars
    \/ BarBegin /\ UNCHANGED envVars
    \/ ExecuteSignal /\ UNCHANGED envVars
    \/ CheckExit /\ UNCHANGED envVars
    \/ Finish /\ UNCHANGED envVars
    \/ CallAgain /\ UNCHANGED envVars

SpecRerun == InitRerun /\ [][NextRerun]_vars

\* The call that has just returned had the inputs of the call before it.
SameInputsAsPrev ==
    /\ prev # NoPrev
    /\ prev.config = config
    /\ prev.data = data
    /\ prev.strategy_func = strategy_func

\* C5: whatever an earlier call left behind, a call starts from a reset ledger:
\* when it returns, the ledger and the result are those of the same call on a
\* new Backtester - the constructor's ledger when the load returned no bars,
\* and the first call's ledger and result when the first call is repeated.
C5_ResetOnEveryCall ==
    pc = "done" =>
        /\ data = <<>> =>
              /\ current_capital = config.initial_capital
              /\ DOMAIN positions = {}
              /\ trades = <<>>
              /\ equity_curve = <<>>
              /\ result = BacktestResult("Unknown", config.initial_capital,
                                         config.initial_capital, 0)
        /\ (SameInputsAsPrev /\ prev.runs = 1) =>
              /\ current_capital = prev.current_capital
              /\ DOMAIN positions = {}
              /\ trades = prev.trades
              /\ equity_curve = prev.equity_curve
              /\ result = prev.result

\* C6: a call with the config, frame and strategy of the call before it
\* returns the same result.
C6_Determinism ==
    (pc = "done" /\ SameInputsAsPrev) => result = prev.result

\* C6 witness: a run that traded at a gain or loss has been repeated.
C6_Witness ==
    /\ pc = "done"
    /\ SameInputsAsPrev
    /\ data # <<>>
    /\ result.total_trades >= 1
    /\ result.total_pnl # 0

\* C12: when the provider returns no bars, run_backtest raises nothing and
\* returns a result with total_trades = 0, total_pnl = 0, final_capital =
\* initial_capital, an empty trade list and an empty equity curve, and the
\* strategy function is not called - on a new instance and on one that has
\* run before alike.
C12_EmptyDataResult ==
    /\ (pc = "done" /\ data = <<>>) =>
          /\ raised = "none"
          /\ result.total_trades = 0
          /\ result.total_pnl = 0
          /\ result.final_capital = config.initial_capital
          /\ result.final_capital = result.initial_capital
          /\ result.trades = <<>>
          /\ result.equity_curve = <<>>
          /\ calls = <<>>
    /\ data = <<>> => pc \in {"idle", "done"}

\* C12 witness: the load returned no bars on an instance whose call before
\* had closed trades at a loss or gain.
C12_Witness ==
    /\ pc = "done"
    /\ data = <<>>
    /\ prev # NoPrev
    /\ prev.result.total_trades >= 1
    /\ prev.current_capital # config.initial_capital

\* The same on a new instance.
C12_WitnessFirstCall ==
    /\ pc = "done"
    /\ data = <<>>
    /\ runs = 1

----------------------------------------------------------------------------
\* A cost sweep (specification SpecSweep): after a run, a second Backtester is
\* built whose config differs only in a higher slippage_pct or a higher
\* commission_pct, and runs the same frame and strategy.

CostSteps == {0, 1, 2}

\* The sweeps start from no costs at all, or from the full cost profile.
SweepConfigs ==
    { c \in Configs :
        /\ c.enable_stop_loss = c.enable_take_profit
        /\ c.position_sizing # "martingale"
        /\ c.position_sizing = "fixed" \/ c.initial_capital = 10000 * Unit
        /\ c.commission_pct = c.slippage_pct
        /\ c.commission_per_trade = 0 <=> c.commission_pct = 0 }

InitSweep == InitWith(SweepConfigs) /\ InitEnv

\* hi is lo with slippage_pct raised, or with commission_pct raised.
RaisedCost(lo, hi) ==
    \/ /\ hi.slippage_pct > lo.slippage_pct
       /\ hi = [lo EXCEPT !.slippage_pct = hi.slippage_pct]
    \/ /\ hi.commission_pct > lo.commission_pct
       /\ hi = [lo EXCEPT !.commission_pct = hi.commission_pct]

RaisedFrom(lo) ==
    { [lo EXCEPT !.slippage_pct = x] : x \in {y \in CostSteps : y > lo.slippage_pct} }
    \cup
    { [lo EXCEPT !.commission_pct = x] : x \in {y \in CostSteps : y > lo.commission_pct} }

\* Backtester(cfg, data_provider): a new instance for the next run of the sweep.
NewBacktester ==
    /\ pc = "done"
    /\ prev = NoPrev
    /\ prev' = Completed(runs, config, data, strategy_func, result,
                         TheLedger, equity_curve)
    /\ \E cfg \in RaisedFrom(config) :
          /\ config' = cfg
          /\ current_capital' = NewLedger(cfg).current_capital
          /\ positions' = NewLedger(cfg).positions
          /\ trades' = NewLedger(cfg).trades
    /\ equity_curve' = <<>>
    /\ data' = <<>>
    /\ strategy_func' = <<>>
    /\ idx' = 0
    /\ signal' = ""
    /\ calls' = <<>>
    /\ pc' = "idle"
    /\ result' = NoResult
    /\ runs' = 0
    /\ UNCHANGED raised

\* The new instance runs the frame and strategy of the run before.
SweepCall ==
    /\ pc = "idle"
    /\ prev # NoPrev
    /\ RunBacktest(prev.data, prev.strategy_func)
    /\ UNCHANGED prev

NextSweep ==
    \/ FirstCall /\ UNCHANGED envVars
    \/ BarBegin /\ UNCHANGED envVars
    \/ ExecuteSignal /\ UNCHANGED envVars
    \/ CheckExit /\ UNCHANGED envVars
    \/ Finish /\ UNCHANGED envVars
    \/ NewBacktester /\ UNCHANGED envVars
    \/ SweepCall /\ UNCHANGED envVars

SpecSweep == InitSweep /\ [][NextSweep]_vars

\* The run that has just returned repeats the run before it at a raised cost.
RaisedCostRun ==
    /\ pc = "done"
    /\ prev # NoPrev
    /\ RaisedCost(prev.config, config)
    /\ prev.data = data
    /\ prev.strategy_func = strategy_func

\* Two trade lists hold the same fills: the same entry bars, exit bars and
\* quantities, each quantity positive.
SameFills(a, b) ==
    /\ Len(a) = Len(b)
    /\ \A k \in 1..Len(a) :
          /\ a[k].entry_time = b[k].entry_time
          /\ a[k].exit_time = b[k].exit_time
          /\ a[k].quantity = b[k].quantity
          /\ a[k].quantity > 0

\* C7 as claimed: raising slippage_pct or commission_pct never raises total_pnl.
C7_CostMonotone ==
    RaisedCostRun => result.total_pnl <= prev.result.total_pnl

\* C7 amended: it never raises total_pnl when both runs make the same fills.
C7_CostMonotoneSameFills ==
    (RaisedCostRun /\ SameFills(prev.result.trades, result.trades)) =>
        result.total_pnl <= prev.result.total_pnl

\* C7 witness: the raised cost left the fills as they were and lowered
\* total_pnl.
C7_Witness ==
    /\ RaisedCostRun
    /\ SameFills(prev.result.trades, result.trades)
    /\ result.total_trades >= 1
    /\ result.total_pnl < prev.result.total_pnl

----------------------------------------------------------------------------
\* HistoricalDataProvider with its backing store (specification SpecProvider):
\* a Backtester is built on a provider and run_backtest is called for a range.

MaxRows == 2
MaxDays == 2
SlotsPerDay == 2

\* A datetime: a day and a time of day (slot 0 is midnight), as one number.
DateTime(day, slot) == day * SlotsPerDay + slot
DateTimes == { DateTime(d, k) : d \in 1..MaxDays, k \in 0..(SlotsPerDay - 1) }

\* A timestamp as the store holds it: text, "date time" or "dateTtime".
Separators == {" ", "T"}
TimestampText(t, sep) == <<t \div SlotsPerDay, sep, t % SlotsPerDay>>

\* datetime.isoformat()
IsoFormat(t) == TimestampText(t, "T")

\* pd.to_datetime on a timestamp text: both separators parse.
ToDatetime(text) == text[1] * SlotsPerDay + text[3]

\* Comparison of two timestamp texts as strings (" " sorts before "T").
TextLeq(a, b) ==
    \/ a[1] < b[1]
    \/ a[1] = b[1] /\ a[2] = " " /\ b[2] = "T"
    \/ a[1] = b[1] /\ a[2] = b[2] /\ a[3] <= b[3]

\* A row of the symbol in the CSV file or in table historical_data.
StoreRow(text, close, interval) ==
    [timestamp |-> text, close |-> close, interval |-> interval]

StoreCloses == {90 * Unit, 110 * Unit}

StoreRows(seps, intervals) ==
    { StoreRow(TimestampText(t, sep), c, iv) :
        t \in DateTimes, sep \in seps, c \in StoreCloses, iv \in intervals }

\* The stores of up to max rows, in file or rowid order.
Stores(rows, max) == UNION { [1..n -> rows] : n \in 0..max }

\* UNIQUE(symbol, exchange, interval, timestamp, broker) of table
\* historical_data: no two rows of a symbol share timestamp and interval.
UniqueRows(store) ==
    \A i, j \in 1..Len(store) :
        (/\ store[i].timestamp = store[j].timestamp
         /\ store[i].interval = store[j].interval) => i = j

Provider(data_source, data_path, store, fault) ==
    [data_source |-> data_source, data_path |-> data_path,
     store |-> store, fault |-> fault]

\* The providers a Backtester is built on: a store of up to max rows in
\* working order with any content, or a store that fails, a missing
\* data_path, an unknown source.
Providers(max) ==
    { Provider("csv", "data", st, "none") :
        st \in Stores(StoreRows(Separators, {"1min"}), max) }
    \cup { Provider("sqlite", "data.db", st, "none") :
        st \in { x \in Stores(StoreRows(Separators, {"1min", "5min"}), max) :
                    UniqueRows(x) } }
    \cup { Provider("postgres", "", st, "none") :
        st \in { x \in Stores(StoreRows({"T"}, {"1min", "5min"}), max) :
                    UniqueRows(x) } }
    \cup { Provider("csv", "data", <<>>, f) : f \in {"missing_file", "read_error"} }
    \cup { Provider("sqlite", "data.db", <<>>, f) : f \in {"connect_error", "query_error"} }
    \cup { Provider("postgres", "", <<>>, f) :
        f \in {"no_driver", "connect_error", "query_error"} }
    \cup { Provider(src, "", <<>>, "none") : src \in {"csv", "sqlite", "parquet"} }

\* What a load gives: a frame, or an exception.
Loaded(frame) == [raised |-> "none", frame |-> frame]
Raises(exception) == [raised |-> exception, frame |-> <<>>]

\* The orders a sort by a key may leave the rows in: every arrangement of the
\* rows in which the keys do not decrease (rows of equal key in any order).
SortedBy(rows, Leq(_, _)) ==
    LET n == Len(rows)
        perms == { q \in [1..n -> 1..n] : \A i, j \in 1..n : q[i] = q[j] => i = j }
    IN  { [i \in 1..n |-> rows[q[i]]] :
            q \in { r \in perms : \A i \in 1..(n - 1) : Leq(rows[r[i]], rows[r[i + 1]]) } }

\* The frame of a sequence of rows: timestamp parsed, index 0 .. n-1.
FrameOf(rows) == [i \in 1..Len(rows) |-> Bar(ToDatetime(rows[i].timestamp), rows[i].close)]

\* HistoricalDataProvider._load_from_csv: a missing file gives an empty
\* frame; the rows are parsed, filtered to [start_date, end_date] and sorted
\* by timestamp.
load_from_csv(p, symbol, start_date, end_date) ==
    IF p.data_path = "" THEN { Raises("ValueError") }
    ELSE IF p.fault = "missing_file" THEN { Loaded(<<>>) }
    ELSE IF p.fault # "none" THEN { Raises("OSError") }
    ELSE LET InRange(row) == /\ ToDatetime(row.timestamp) >= start_date
                             /\ ToDatetime(row.timestamp) <= end_date
             ByTime(a, b) == ToDatetime(a.timestamp) <= ToDatetime(b.timestamp)
         IN  { Loaded(FrameOf(rows)) :
                 rows \in SortedBy(SelectSeq(p.store, InRange), ByTime) }

\* HistoricalDataProvider._load_from_sqlite: the column is TEXT, so BETWEEN
\* and ORDER BY compare the stored text with the isoformat() of the bounds;
\* an error of connect or of the query is not caught.
load_from_sqlite(p, symbol, start_date, end_date) ==
    IF p.data_path = "" THEN { Raises("ValueError") }
    ELSE IF p.fault = "connect_error" THEN { Raises("OperationalError") }
    ELSE IF p.fault # "none" THEN { Raises("DatabaseError") }
    ELSE LET Between(row) == /\ TextLeq(IsoFormat(start_date), row.timestamp)
                             /\ TextLeq(row.timestamp, IsoFormat(end_date))
             ByText(a, b) == TextLeq(a.timestamp, b.timestamp)
         IN  { Loaded(FrameOf(rows)) :
                 rows \in SortedBy(SelectSeq(p.store, Between), ByText) }

\* HistoricalDataProvider._load_from_postgres: without psycopg2, and on any
\* exception of connect or of the query, the error is logged and an empty
\* frame is returned.
load_from_postgres(p, symbol, start_date, end_date) ==
    IF p.fault # "none" THEN { Loaded(<<>>) }
    ELSE LET Between(row) == /\ ToDatetime(row.timestamp) >= start_date
                             /\ ToDatetime(row.timestamp) <= end_date
             ByTime(a, b) == ToDatetime(a.timestamp) <= ToDatetime(b.timestamp)
         IN  { Loaded(FrameOf(rows)) :
                 rows \in SortedBy(SelectSeq(p.store, Between), ByTime) }

\* HistoricalDataProvider.load_data: the outcomes the load may have.
load_data(p, symbol, start_date, end_date) ==
    CASE p.data_source = "csv" -> load_from_csv(p, symbol, start_date, end_date)
      [] p.data_source = "sqlite" -> load_from_sqlite(p, symbol, start_date, end_date)
      [] p.data_source = "postgres" -> load_from_postgres(p, symbol, start_date, end_date)
      [] OTHER -> { Raises("ValueError") }

\* The configs of the Backtester built on the provider.
ProviderConfigs ==
    { c \in RerunConfigs :
        /\ c.position_sizing = "fixed"
        /\ c.commission_per_trade = 0
        /\ c.commission_pct = 0 }

InitProvider ==
    /\ InitWith(ProviderConfigs)
    /\ data_provider \in Providers(MaxRows)
    /\ request = NoRequest
    /\ returned = <<>>
    /\ other = NoInstance

\* run_backtest(strategy_func, symbol, start_date, end_date) on the provider:
\* an exception of load_data escapes the call, a frame is run.
ProviderCall ==
    /\ pc = "idle"
    /\ \E start_date, end_date \in DateTimes :
          /\ start_date <= end_date
          /\ request' = [symbol |-> Symbol, start_date |-> start_date,
                         end_date |-> end_date]
          /\ \E o \in load_data(data_provider, Symbol, start_date, end_date) :
                IF o.raised # "none"
                THEN /\ pc' = "raised"
                     /\ raised' = o.raised
                     /\ runs' = runs + 1
                     /\ UNCHANGED <<config, current_capital, positions, trades,
                                    equity_curve, data, strategy_func, idx,
                                    signal, calls, result>>
                ELSE \E f \in StrategyFuncs(o.frame) : RunBacktest(o.frame, f)
    /\ UNCHANGED <<prev, data_provider, returned, other>>

NextProvider ==
    \/ ProviderCall
    \/ BarBegin /\ UNCHANGED envVars
    \/ ExecuteSignal /\ UNCHANGED envVars
    \/ CheckExit /\ UNCHANGED envVars
    \/ Finish /\ UNCHANGED envVars

SpecProvider == InitProvider /\ [][NextProvider]_vars

\* run_backtest has got a frame from load_data.
DataLoaded == pc \notin {"idle", "raised"}

\* C15: a load from a CSV or SQLite store returns bars in strictly ascending
\* timestamp order - sorted, no two bars sharing a timestamp - and every
\* bar's timestamp lies in [start_date, end_date].
C15_LoadSortedUniqueInRange ==
    (DataLoaded /\ data_provider.data_source \in {"csv", "sqlite"}) =>
        /\ \A i \in 1..(Len(data) - 1) : data[i].timestamp < data[i + 1].timestamp
        /\ \A i \in 1..Len(data) :
              /\ request.start_date <= data[i].timestamp
              /\ data[i].timestamp <= request.end_date

\* The part of C15 the CSV load meets: the bars are in non-decreasing
\* timestamp order and within the range.
CsvSortedInRange ==
    (DataLoaded /\ data_provider.data_source = "csv") =>
        /\ \A i \in 1..(Len(data) - 1) : data[i].timestamp <= data[i + 1].timestamp
        /\ \A i \in 1..Len(data) :
              /\ request.start_date <= data[i].timestamp
              /\ data[i].timestamp <= request.end_date

\* The failures of a store at load time: the file cannot be read, the
\* database cannot be reached, the query fails.
StoreFailures == {"read_error", "connect_error", "query_error"}

\* C16: a failure of the backing store during the load escapes run_backtest
\* as an exception, whatever the backend; the call does not go on with an
\* empty data set and return a result.
C16_StoreFailurePropagates ==
    (pc # "idle" /\ data_provider.fault \in StoreFailures) =>
        /\ pc = "raised"
        /\ raised # "none"
        /\ result = NoResult

----------------------------------------------------------------------------
\* Results in the caller's hands (specification SpecAlias).  A result with
\* trades is built with trades=self.trades, equity_curve=self.equity_curve:
\* its two lists are the ledger's own list objects, and an append to the
\* ledger's lists is seen through it.  A result without trades has lists of
\* its own (the dataclass default_factory).

\* A result as handed to the caller: the value it was returned with, the
\* object as it is now, and whether its lists are still the ledger's.
Handed(res) ==
    [as_returned |-> res, now |-> res, shares |-> res.total_trades # 0]

\* self.trades.append(...) / self.equity_curve.append(...) as seen through a
\* result handed out earlier.
AppendInPlace(h) ==
    IF h.shares
    THEN [h EXCEPT !.now.trades = trades', !.now.equity_curve = equity_curve']
    ELSE h

\* Mutant of RebindLists: the reset empties the lists in place
\* (self.trades.clear()) instead of binding new ones.
RebindLists_ClearInPlace(h) ==
    IF h.shares
    THEN [h EXCEPT !.now.trades = <<>>, !.now.equity_curve = <<>>]
    ELSE h

\* "Reset state": self.trades = [] and self.equity_curve = [] bind new lists
\* to the instance; the lists an earlier result holds stay as they are and
\* are the ledger's no longer.
RebindLists(h) == [h EXCEPT !.shares = FALSE]

\* run_backtest up to the loop: with no data a result of its own is returned
\* and the ledger is not touched; otherwise the ledger is reset.
TrackCall ==
    returned' = IF data' = <<>>
                THEN Append(returned, Handed(result'))
                ELSE [k \in DOMAIN returned |-> RebindLists(returned[k])]

\* A step of the loop: its appends go to the ledger's lists.
TrackLoop == returned' = [k \in DOMAIN returned |-> AppendInPlace(returned[k])]

\* The forced closes and the return of the result.
TrackReturn ==
    returned' = Append([k \in DOMAIN returned |-> AppendInPlace(returned[k])],
                       Handed(result'))

AliasConfigs ==
    { c \in RerunConfigs : c.position_sizing = "fixed" /\ c.commission_per_trade = 0 }

InitAlias == InitWith(AliasConfigs) /\ InitEnv

\* A strategy that returns BUY on every bar.
AlwaysBuy(frame) == [i \in 1..Len(frame) |-> "BUY"]

\* A later call on the same instance: the same frame with the same strategy
\* or with another one, or a range that holds no data.
CallLater ==
    /\ pc = "done"
    /\ runs < MaxRuns
    /\ prev' = Completed(runs, config, data, strategy_func, result,
                         TheLedger, equity_curve)
    /\ \E frame \in {data, <<>>} :
          \E f \in {strategy_func, AlwaysBuy(data)} :
              RunBacktest(frame, IF frame = <<>> THEN <<>> ELSE f)

NextAlias ==
    \/ FirstCall /\ TrackCall /\ UNCHANGED <<data_provider, request, other>>
    \/ BarBegin /\ TrackLoop /\ UNCHANGED <<data_provider, request, other>>
    \/ ExecuteSignal /\ TrackLoop /\ UNCHANGED <<data_provider, request, other>>
    \/ CheckExit /\ TrackLoop /\ UNCHANGED <<data_provider, request, other>>
    \/ Finish /\ TrackReturn /\ UNCHANGED <<data_provider, request, other>>
    \/ CallLater /\ TrackCall /\ UNCHANGED <<data_provider, request, other>>

SpecAlias == InitAlias /\ [][NextAlias]_vars

\* C18: a BacktestResult that run_backtest has returned stays as it was
\* returned - its trades, its equity_curve and every scalar field - through
\* every later run_backtest call on the same instance.
C18_ResultNeverMutated ==
    \A k \in DOMAIN returned : returned[k].now = returned[k].as_returned

\* C18 witness: a result with trades was returned, and a later call on the
\* instance has run to its end with a ledger that differs from that result.
C18_Witness ==
    /\ pc = "done"
    /\ runs >= 2
    /\ data # <<>>
    /\ Len(returned) >= 2
    /\ returned[1].as_returned.total_trades >= 1
    /\ returned[1].as_returned.trades # trades
    /\ returned[1].as_returned.equity_curve # equity_curve

\* The same when the later call found no data: the earlier result still
\* shares its lists with the ledger, and nothing was appended to them.
C18_WitnessEmptyCall ==
    /\ pc = "done"
    /\ runs >= 2
    /\ data = <<>>
    /\ returned[1].shares
    /\ returned[1].as_returned.total_trades >= 1

----------------------------------------------------------------------------
\* Two Backtester instances at work at once (specification SpecTwo).  The
\* variables hold the instance whose thread is running, other holds the
\* instance whose thread is waiting; the scheduler may switch between any two
\* steps.  __init__ and run_backtest keep all state in attributes of self, so
\* a switch exchanges every field.

MaxBarsEach == 2

\* An instance with its fields, as it waits.
Instance(id, cfg, L, curve, frame, f, i, sig, cs, at, res, exc, n) ==
    [id |-> id, config |-> cfg, current_capital |-> L.current_capital,
     positions |-> L.positions, trades |-> L.trades, equity_curve |-> curve,
     data |-> frame, strategy_func |-> f, idx |-> i, signal |-> sig,
     calls |-> cs, pc |-> at, result |-> res, raised |-> exc, runs |-> n]

\* Backtester(cfg, data_provider): a second instance, not yet run.
NewInstance(id, cfg) ==
    Instance(id, cfg, NewLedger(cfg), <<>>, <<>>, <<>>, 0, "", <<>>, "idle",
             NoResult, "none", 0)

\* The instance at work.
ThisInstance(id) ==
    Instance(id, config, TheLedger, equity_curve, data, strategy_func, idx,
             signal, calls, pc, result, raised, runs)

TwoConfigs ==
    { c \in Configs :
        /\ c.position_sizing = "fixed"
        /\ c.enable_stop_loss /\ c.enable_take_profit
        /\ \/ /\ c.initial_capital = 1000 * Unit
              /\ c.commission_per_trade = 0 /\ c.commission_pct = 0
              /\ c.slippage_pct = 0
           \/ /\ c.initial_capital = 10000 * Unit
              /\ c.commission_per_trade # 0 /\ c.commission_pct # 0
              /\ c.slippage_pct # 0 }

InitTwo ==
    /\ InitWith(TwoConfigs)
    /\ data_provider = AnyProvider
    /\ request = NoRequest
    /\ returned = <<>>
    /\ other \in { NewInstance(2, cfg) : cfg \in TwoConfigs }

\* The frames of at most MaxBarsEach bars.
ShortFrames == { frame \in Frames : Len(frame) <= MaxBarsEach }

\* The frame of another symbol: the closes mirrored about 100.
Mirror(frame) ==
    [i \in 1..Len(frame) |-> Bar(frame[i].timestamp, 200 * Unit - frame[i].close)]

\* run_backtest on the instance at work.  The first of the two calls takes
\* any short frame and strategy; the second runs the same strategy on the
\* same frame (a parameter sweep) or on the mirrored one (another symbol).
TwoCall ==
    /\ pc = "idle"
    /\ IF other.pc = "idle"
       THEN \E frame \in ShortFrames :
               \E f \in StrategyFuncs(frame) : RunBacktest(frame, f)
       ELSE \E frame \in {other.data, Mirror(other.data)} :
               RunBacktest(frame, other.strategy_func)
    /\ UNCHANGED prev

\* Mutant of Switch: current_capital is one cell that both instances use.
Switch_SharedCapital ==
    /\ other' = ThisInstance(3 - other.id)
    /\ config' = other.config
    /\ positions' = other.positions
    /\ trades' = other.trades
    /\ equity_curve' = other.equity_curve
    /\ data' = other.data
    /\ strategy_func' = other.strategy_func
    /\ idx' = other.idx
    /\ signal' = other.signal
    /\ calls' = other.calls
    /\ pc' = other.pc
    /\ result' = other.result
    /\ raised' = other.raised
    /\ runs' = other.runs
    /\ UNCHANGED <<current_capital, prev, data_provider, request, returned>>

\* The scheduler lets the other thread run: the waiting instance comes to
\* work with its own fields, the one at work waits with its own.
Switch ==
    /\ other' = ThisInstance(3 - other.id)
    /\ config' = other.config
    /\ current_capital' = other.current_capital
    /\ positions' = other.positions
    /\ trades' = other.trades
    /\ equity_curve' = other.equity_curve
    /\ data' = other.data
    /\ strategy_func' = other.strategy_func
    /\ idx' = other.idx
    /\ signal' = other.signal
    /\ calls' = other.calls
    /\ pc' = other.pc
    /\ result' = other.result
    /\ raised' = other.raised
    /\ runs' = other.runs
    /\ UNCHANGED <<prev, data_provider, request, returned>>

NextTwo ==
    \/ TwoCall /\ UNCHANGED envVars
    \/ BarBegin /\ UNCHANGED envVars
    \/ ExecuteSignal /\ UNCHANGED envVars
    \/ CheckExit /\ UNCHANGED envVars
    \/ Finish /\ UNCHANGED envVars
    \/ Switch

SpecTwo == InitTwo /\ [][NextTwo]_vars

\* The loop of run_backtest from bar i on, as one computation on a ledger and
\* a curve that nothing else touches.
RECURSIVE LoopFrom(_, _, _, _, _, _)
LoopFrom(cfg, frame, f, i, L, curve) ==
    IF i > Len(frame) THEN [ledger |-> L, equity_curve |-> curve]
    ELSE LET row == frame[i]
             equity == calculate_current_equity(L, row.close)
             sig == StrategyCall(f, HistoricalData(frame, i - 1))
             L1 == ApplySignal(L, cfg, sig, Symbol, row)
             L2 == ApplyExitCheck(L1, cfg, Symbol, row, StrategyParams)
         IN  LoopFrom(cfg, frame, f, i + 1, L2,
                      Append(curve, <<row.timestamp, equity>>))

\* The result of run_backtest(f) over a frame on an instance that runs alone.
RunAlone(cfg, frame, f) ==
    IF frame = <<>>
    THEN BacktestResult("Unknown", cfg.initial_capital, cfg.initial_capital, 0)
    ELSE LET r == ResetState(cfg, NewLedger(cfg), <<>>)
             end == LoopFrom(cfg, frame, f, 1,
                             Ledger(r.current_capital, r.positions, r.trades),
                             r.equity_curve)
             last == frame[Len(frame)]
             L == CloseAll(end.ledger, cfg, DOMAIN end.ledger.positions,
                           last.timestamp, last.close)
         IN  calculate_results(cfg, L, end.equity_curve, StrategyName, Len(frame))

\* C19: of two run_backtest calls on two instances whose per-bar steps are
\* interleaved in any way, each returns the result it returns when run alone,
\* and a step of one instance leaves every field of the other as it was.
C19_InstancesIsolated ==
    [][ /\ pc' = "done" =>
              result' = RunAlone(config', data', strategy_func')
        /\ other'.pc = "done" =>
              other'.result = RunAlone(other'.config, other'.data,
                                       other'.strategy_func)
        /\ other'.id = other.id => other' = other ]_vars

\* C19 witness: both calls have returned, each with trades, with different
\* results, the one at work having finished while the other had begun.
C19_Witness ==
    /\ pc = "done"
    /\ other.pc = "done"
    /\ result.total_trades >= 1
    /\ other.result.total_trades >= 1
    /\ result.final_capital # other.result.final_capital
    /\ result.total_pnl # other.result.total_pnl

\* Both calls are inside the loop at once, each holding an open position.
C19_WitnessBothInLoop ==
    /\ pc = "signal"
    /\ other.pc = "exit_check"
    /\ Symbol \in DOMAIN positions
    /\ Symbol \in DOMAIN other.positions
    /\ idx = 1
    /\ other.idx = 0

----------------------------------------------------------------------------
\* _calculate_results called again (specification SpecCalc): after a run over
\* a non-empty frame has returned, the statistics are computed once more on
\* the instance, with the arguments run_backtest passed.

\* Mutant of CalculateResults: the computation uses the trade list up.
CalculateResults_DrainsTrades ==
    /\ pc = "done"
    /\ data # <<>>
    /\ prev' = Completed(runs, config, data, strategy_func, result,
                         TheLedger, equity_curve)
    /\ result' = calculate_results(config, TheLedger, equity_curve,
                                   StrategyName, Len(data))
    /\ trades' = <<>>
    /\ UNCHANGED <<config, current_capital, positions, equity_curve, data,
                   strategy_func, idx, signal, calls, pc, raised, runs>>

\* Backtester._calculate_results as a call of its own: it reads self.trades,
\* self.equity_curve, self.current_capital and self.config, builds its lists
\* anew and assigns to no attribute of self.
CalculateResults ==
    /\ pc = "done"
    /\ data # <<>>
    /\ prev' = Completed(runs, config, data, strategy_func, result,
                         TheLedger, equity_curve)
    /\ result' = calculate_results(config, TheLedger, equity_curve,
                                   StrategyName, Len(data))
    /\ UNCHANGED <<config, current_capital, positions, trades, equity_curve,
                   data, strategy_func, idx, signal, calls, pc, raised, runs>>

InitCalc == InitWith(RerunConfigs) /\ InitEnv

NextCalc ==
    \/ FirstCall /\ UNCHANGED envVars
    \/ BarBegin /\ UNCHANGED envVars
    \/ ExecuteSignal /\ UNCHANGED envVars
    \/ CheckExit /\ UNCHANGED envVars
    \/ Finish /\ UNCHANGED envVars
    \/ CalculateResults /\ UNCHANGED envVars

SpecCalc == InitCalc /\ [][NextCalc]_vars

----------------------------------------------------------------------------
\* Runs at the edge of the cost model (specification SpecEdge): closes that
\* fall to 1 or to 0, a capital that the first entry uses up, a flat fee, and
\* a slippage of 5 % and of 10 %, with fixed sizing.

EdgeCloses == {0, Unit, 90 * Unit}

EdgeFrames ==
    UNION { { [i \in 1..n |-> Bar(i, c[i])] : c \in [1..n -> EdgeCloses] } :
            n \in 0..MaxBars }

\* Cost settings <<commission_per_trade, commission_pct, slippage_pct>>.
EdgeCostProfiles == {<<0, 0, 0>>, <<20, 0, 0>>, <<0, 0, 1>>, <<0, 0, 2>>}

EdgeConfigs ==
    { BacktestConfig(ic * Unit, k[1] * Unit, k[2], k[3], "fixed",
                     SizeOf("fixed"), sl, tp) :
        ic \in {920, 10000}, k \in EdgeCostProfiles,
        sl \in BOOLEAN, tp \in BOOLEAN }

InitEdge == InitWith(EdgeConfigs) /\ InitEnv

\* The first call on a new Backtester, over a frame of such closes.
EdgeCall ==
    /\ pc = "idle"
    /\ prev = NoPrev
    /\ \E frame \in EdgeFrames : \E f \in StrategyFuncs(frame) : RunBacktest(frame, f)
    /\ UNCHANGED prev

NextEdge ==
    \/ EdgeCall /\ UNCHANGED envVars
    \/ BarBegin /\ UNCHANGED envVars
    \/ ExecuteSignal /\ UNCHANGED envVars
    \/ CheckExit /\ UNCHANGED envVars
    \/ Finish /\ UNCHANGED envVars

SpecEdge == InitEdge /\ [][NextEdge]_vars

\* C28 as claimed: current_capital is never negative in a run started with a
\* non-negative initial capital, non-negative closes and non-negative
\* commission and slippage settings.
C28_CapitalNeverNegative == current_capital >= 0

\* C28 amended: current_capital is never below -commission_per_trade, and it
\* is not negative while a position is open, after an entry, or when no flat
\* fee is charged; only the flat fee of an exit can take cash below zero.
C28_CapitalAboveFlatFee ==
    /\ current_capital >= -config.commission_per_trade
    /\ DOMAIN positions # {} => current_capital >= 0
    /\ config.commission_per_trade = 0 => current_capital >= 0

\* C28 witness: an entry used up the cash and the exit, at a close of 1, did
\* not bring in its flat fee: the run returned with negative capital.
C28_Witness ==
    /\ pc = "done"
    /\ data # <<>>
    /\ data[Len(data)].close > 0
    /\ result.total_trades = 1
    /\ current_capital < 0
    /\ current_capital >= -config.commission_per_trade
    /\ result.final_capital = current_capital

\* The stop-loss / take-profit step is about to run on the bar whose BUY
\* opened the position.
ExitCheckOnEntryBar ==
    /\ pc = "exit_check"
    /\ Symbol \in DOMAIN positions
    /\ positions[Symbol].entry_time = CurrentBar.timestamp

\* C29 as claimed, for the bars with a positive close: the stop-loss /
\* take-profit step never closes a position on the bar on which it was
\* opened, for any slippage_pct >= 0.
C29_NoExitOnEntryBar ==
    [][ (ExitCheckOnEntryBar /\ CurrentBar.close > 0) =>
            (positions' = positions /\ trades' = trades) ]_vars

\* C29 amended: the step leaves a position opened on the same bar open when
\* the close is positive and slippage_pct does not exceed stop_loss_pct; it
\* closes it on that bar exactly when the close is at or below
\* entry_price * (1 - stop_loss_pct) with the stop loss enabled (a slippage
\* of 10 % against the 5 % stop, or a close of 0) or at or above
\* entry_price * (1 + take_profit_pct) with the take profit enabled (a close
\* of 0).
C29_NoExitOnEntryBarSmallSlippage ==
    [][ ExitCheckOnEntryBar =>
          /\ (CurrentBar.close > 0 /\ config.slippage_pct <= DefaultStopLossPct) =>
                (positions' = positions /\ trades' = trades)
          /\ (positions' # positions) <=>
                ThresholdHit(config, positions[Symbol], CurrentBar.close) ]_vars

\* C29 witness: a BUY filled with 5 % slippage under the 5 % stop and the
\* 10 % target, its bar has been processed and the position is still open.
C29_Witness ==
    /\ pc = "bar"
    /\ idx > 0
    /\ config.enable_stop_loss
    /\ config.enable_take_profit
    /\ config.slippage_pct = DefaultStopLossPct
    /\ Symbol \in DOMAIN positions
    /\ positions[Symbol].entry_time = ProcessedBar.timestamp
    /\ ProcessedBar.close > 0

----------------------------------------------------------------------------
\* The statistics of _calculate_results (specification SpecStats): the
\* methods that turn the closed-trade list and the equity curve into the
\* drawdown, the daily returns, the three ratios and the streaks.  Money is
\* exact, so a float result is kept as the exact value it stands for: 0.0,
\* inf, or the numbers the quotient is made of.

MaxTrades == 3
MaxPoints == 4
StatDays == 3

\* risk_free_rate, the dataclass default 0.06, in 1/Unit.
RiskFreeRate == (6 * Unit) \div 100
TradingDays == 252

Zero == [kind |-> "zero"]
Infinity == [kind |-> "inf"]
Raised(exception) == [kind |-> "raised", exception |-> exception]

\* a / b of two numbers; Python raises on a zero divisor.
Divide(a, b) ==
    IF b = 0 THEN Raised("ZeroDivisionError")
    ELSE IF a = 0 THEN Zero
    ELSE [kind |-> "quotient", num |-> a, den |-> b]

Max2(a, b) == IF a >= b THEN a ELSE b

RECURSIVE ConsecutiveLoop(_, _, _, _, _)
\* The loop of _calculate_consecutive_stats over the pnls still to read.
ConsecutiveLoop(pnls, max_wins, max_losses, current_wins, current_losses) ==
    IF pnls = <<>> THEN <<max_wins, max_losses>>
    ELSE LET pnl == Head(pnls)
         IN IF pnl > 0
            THEN ConsecutiveLoop(Tail(pnls), Max2(max_wins, current_wins + 1),
                                 max_losses, current_wins + 1, 0)
            ELSE IF pnl < 0
            THEN ConsecutiveLoop(Tail(pnls), max_wins,
                                 Max2(max_losses, current_losses + 1),
                                 0, current_losses + 1)
            ELSE ConsecutiveLoop(Tail(pnls), max_wins, max_losses,
                                 current_wins, current_losses)

\* Backtester._calculate_consecutive_stats
calculate_consecutive_stats(pnls) == ConsecutiveLoop(pnls, 0, 0, 0, 0)

RECURSIVE Gcd(_, _)
Gcd(a, b) == IF b = 0 THEN a ELSE Gcd(b, a % b)

\* The number a / b (b > 0) as the pair <<numerator, denominator>> in lowest
\* terms; 0.0 is <<0, 1>>.
Fraction(a, b) == <<a \div Gcd(a, b), b \div Gcd(a, b)>>

\* drawdown / peak * 100, and 0.0 when the peak is not positive.
DrawdownPct(drawdown, peak) ==
    IF peak > 0 THEN Fraction(drawdown * 100, peak) ELSE <<0, 1>>

RECURSIVE DrawdownLoop_LastAttained(_, _, _, _)
\* Mutant of DrawdownLoop: a drawdown equal to the largest so far replaces it
\* (>= for >).
DrawdownLoop_LastAttained(values, peak, max_dd, max_dd_pct) ==
    IF values = <<>> THEN <<max_dd, max_dd_pct>>
    ELSE LET equity == Head(values)
             new_peak == IF equity > peak THEN equity ELSE peak
             drawdown == new_peak - equity
             drawdown_pct == DrawdownPct(drawdown, new_peak)
         IN IF drawdown >= max_dd
            THEN DrawdownLoop_LastAttained(Tail(values), new_peak, drawdown, drawdown_pct)
            ELSE DrawdownLoop_LastAttained(Tail(values), new_peak, max_dd, max_dd_pct)

RECURSIVE DrawdownLoop(_, _, _, _)
\* The loop of _calculate_max_drawdown over the equity values still to read.
DrawdownLoop(values, peak, max_dd, max_dd_pct) ==
    IF values = <<>> THEN <<max_dd, max_dd_pct>>
    ELSE LET equity == Head(values)
             new_peak == IF equity > peak THEN equity ELSE peak
             drawdown == new_peak - equity
             drawdown_pct == DrawdownPct(drawdown, new_peak)
         IN IF drawdown > max_dd
            THEN DrawdownLoop(Tail(values), new_peak, drawdown, drawdown_pct)
            ELSE DrawdownLoop(Tail(values), new_peak, max_dd, max_dd_pct)

\* Backtester._calculate_max_drawdown
calculate_max_drawdown(equity_values) ==
    IF equity_values = <<>> THEN <<0, <<0, 1>>>>
    ELSE DrawdownLoop(equity_values, equity_values[1], 0, <<0, 1>>)

\* timestamp.date(): the day of a timestamp.
DateOf(t) == t \div SlotsPerDay

RECURSIVE Sorted(_)
\* sorted(): the members of a set of numbers in rising order.
Sorted(numbers) ==
    IF numbers = {} THEN <<>>
    ELSE LET first == CHOOSE d \in numbers : \A e \in numbers : d <= e
         IN <<first>> \o Sorted(numbers \ {first})

\* daily_equity[date][-1]: the last equity recorded on a date.
EndOfDay(curve, date) ==
    LET on == {i \in 1..Len(curve) : DateOf(curve[i][1]) = date}
        last == CHOOSE i \in on : \A j \in on : j <= i
    IN curve[last][2]

\* Backtester._calculate_daily_returns
calculate_daily_returns(curve) ==
    IF Len(curve) < 2 THEN <<>>
    ELSE LET sorted_dates == Sorted({DateOf(curve[i][1]) : i \in 1..Len(curve)})
         IN [i \in 1..(Len(sorted_dates) - 1) |->
                EndOfDay(curve, sorted_dates[i + 1]) - EndOfDay(curve, sorted_dates[i])]

\* statistics.mean: the sum and the count; StatisticsError on no data.
Mean(xs) ==
    IF xs = <<>> THEN Raised("StatisticsError")
    ELSE [kind |-> "mean", sum |-> SumSeq(xs), n |-> Len(xs)]

\* statistics.stdev: sqrt(sum((x - mean)^2) / (n - 1)), kept as the n
\* deviations n * (x - mean) it is made of; StatisticsError on fewer than two
\* data points.
StDev(xs) ==
    IF Len(xs) < 2 THEN Raised("StatisticsError")
    ELSE [kind |-> "stdev",
          deviations |-> [k \in 1..Len(xs) |-> Len(xs) * xs[k] - SumSeq(xs)],
          n |-> Len(xs)]

\* std == 0: every data point is the mean.
IsZeroDev(dev) == \A k \in 1..Len(dev.deviations) : dev.deviations[k] = 0

\* (avg_return - daily_rf) / deviation * 252 ** 0.5, with daily_rf =
\* risk_free_rate / 252: 0.0 when the numerator is 0.
Annualized(avg, dev, risk_free_rate) ==
    LET num == TradingDays * avg.sum - avg.n * risk_free_rate
    IN IF num = 0 THEN Zero
       ELSE [kind |-> "ratio", num |-> num, scale |-> TradingDays * avg.n,
             deviations |-> dev.deviations, n |-> dev.n]

\* Mutant of calculate_sharpe_ratio: the guard on the number of daily returns
\* is missing.
calculate_sharpe_ratio_NoLengthGuard(daily_returns, risk_free_rate) ==
    LET avg_return == Mean(daily_returns)
        std_return == StDev(daily_returns)
    IN IF avg_return.kind = "raised" THEN avg_return
       ELSE IF std_return.kind = "raised" THEN std_return
       ELSE IF IsZeroDev(std_return) THEN Zero
       ELSE Annualized(avg_return, std_return, risk_free_rate)

\* Backtester._calculate_sharpe_ratio
calculate_sharpe_ratio(daily_returns, risk_free_rate) ==
    IF Len(daily_returns) < 2 THEN Zero
    ELSE LET avg_return == Mean(daily_returns)
             std_return == StDev(daily_returns)
         IN IF avg_return.kind = "raised" THEN avg_return
            ELSE IF std_return.kind = "raised" THEN std_return
            ELSE IF IsZeroDev(std_return) THEN Zero
            ELSE Annualized(avg_return, std_return, risk_free_rate)

\* Backtester._calculate_sortino_ratio
calculate_sortino_ratio(daily_returns, risk_free_rate) ==
    IF Len(daily_returns) < 2 THEN Zero
    ELSE LET avg_return == Mean(daily_returns)
             IsDownside(r) == r < 0
             downside_returns == SelectSeq(daily_returns, IsDownside)
             downside_dev == IF Len(downside_returns) > 1
                             THEN StDev(downside_returns)
                             ELSE [kind |-> "stdev", deviations |-> <<0>>, n |-> 1]
         IN IF avg_return.kind = "raised" THEN avg_return
            ELSE IF downside_returns = <<>> THEN Infinity
            ELSE IF downside_dev.kind = "raised" THEN downside_dev
            ELSE IF IsZeroDev(downside_dev) THEN Zero
            ELSE Annualized(avg_return, downside_dev, risk_free_rate)

\* calmar_ratio = (total_pnl / max_drawdown) if max_drawdown > 0 else 0.0
calculate_calmar_ratio(total_pnl, max_drawdown) ==
    IF max_drawdown > 0 THEN Divide(total_pnl, max_drawdown) ELSE Zero

\* The pnl and the equity column of the two lists.
PnlsOf(ts) == [k \in 1..Len(ts) |-> ts[k].pnl]
EquityValuesOf(curve) == [k \in 1..Len(curve) |-> curve[k][2]]

\* The risk and streak fields of a BacktestResult at their dataclass defaults.
DefaultStatistics ==
    [total_trades |-> 0, total_pnl |-> 0,
     max_drawdown |-> 0, max_drawdown_pct |-> <<0, 1>>,
     daily_returns |-> <<>>,
     sharpe_ratio |-> Zero, sortino_ratio |-> Zero, calmar_ratio |-> Zero,
     max_consecutive_wins |-> 0, max_consecutive_losses |-> 0]

\* The risk and streak fields _calculate_results computes (lines 548-561).
calculate_statistics(ts, curve, risk_free_rate) ==
    LET pnls == PnlsOf(ts)
        total_pnl == SumSeq(pnls)
        drawdown == calculate_max_drawdown(EquityValuesOf(curve))
        daily_returns == calculate_daily_returns(curve)
        streaks == calculate_consecutive_stats(pnls)
    IN IF Len(ts) = 0 THEN DefaultStatistics
       ELSE [total_trades |-> Len(ts), total_pnl |-> total_pnl,
             max_drawdown |-> drawdown[1], max_drawdown_pct |-> drawdown[2],
             daily_returns |-> daily_returns,
             sharpe_ratio |-> calculate_sharpe_ratio(daily_returns, risk_free_rate),
             sortino_ratio |-> calculate_sortino_ratio(daily_returns, risk_free_rate),
             calmar_ratio |-> calculate_calmar_ratio(total_pnl, drawdown[1]),
             max_consecutive_wins |-> streaks[1],
             max_consecutive_losses |-> streaks[2]]

\* The exception a statistics record carries, "none" when every field is a value.
RaisedIn(stats) ==
    IF stats.sharpe_ratio.kind = "raised" THEN stats.sharpe_ratio.exception
    ELSE IF stats.sortino_ratio.kind = "raised" THEN stats.sortino_ratio.exception
    ELSE IF stats.calmar_ratio.kind = "raised" THEN stats.calmar_ratio.exception
    ELSE "none"

\* A closed trade of 10 units bought at 100 without costs, with the pnl given.
StatTrade(k, pnl) ==
    [BacktestTrade(k, Symbol, 100 * Unit, 10, 0, 0) EXCEPT
        !.exit_time = k, !.exit_price = 100 * Unit + pnl \div 10,
        !.pnl = pnl, !.status = "CLOSED", !.notes = "Normal exit"]

StatPnls == {-10 * Unit, 0, 10 * Unit}

\* The closed-trade lists of at most max trades.
StatTradeLists(max) ==
    UNION { { [k \in 1..n |-> StatTrade(k, p[k])] : p \in [1..n -> StatPnls] } :
            n \in 0..max }

\* Equity values a run records: above and below the start, nothing, and less
\* than nothing.
StatEquities == {-10 * Unit, 0, 90 * Unit, 100 * Unit, 110 * Unit}

\* Daily bars: one equity entry per day, at most max of them.
DailyCurves(max) ==
    UNION { { [i \in 1..n |-> <<DateTime(i, 0), e[i]>>] : e \in [1..n -> StatEquities] } :
            n \in 0..max }

\* Intraday bars: at most max entries at rising times within days days.
IntradayCurves(max, days) ==
    LET times == { DateTime(d, k) : d \in 1..days, k \in 0..(SlotsPerDay - 1) }
    IN UNION { { [i \in 1..n |-> <<t[i], e[i]>>] :
                    t \in { Sorted(at) : at \in { x \in SUBSET times :
                                                    Cardinality(x) = n } },
                    e \in [1..n -> {90 * Unit, 100 * Unit}] } :
               n \in 0..max }

\* The run is past its loop and its forced close: the lists are complete and
\* _calculate_results is about to compute the statistics.
InitStats ==
    /\ config = BacktestConfig(10000 * Unit, 0, 0, 0, "fixed", SizeOf("fixed"),
                               FALSE, FALSE)
    /\ current_capital = config.initial_capital
    /\ positions = EmptyMap
    /\ \/ /\ trades \in StatTradeLists(MaxTrades)
          /\ equity_curve = <<<<DateTime(1, 0), 100 * Unit>>>>
       \/ /\ trades \in { <<StatTrade(1, p)>> : p \in StatPnls }
          /\ equity_curve \in DailyCurves(MaxPoints)
       \/ /\ trades \in { <<StatTrade(1, p)>> : p \in StatPnls \ {0} }
          /\ equity_curve \in IntradayCurves(MaxPoints, StatDays)
    /\ data = <<>>
    /\ strategy_func = <<>>
    /\ idx = 0
    /\ signal = ""
    /\ calls = <<>>
    /\ pc = "statistics"
    /\ result = NoResult
    /\ raised = "none"
    /\ runs = 1
    /\ prev = NoPrev
    /\ InitEnv

\* _calculate_results, the statistics: the result carries them, or the
\* exception of the method that raised leaves the call.
CalculateStatistics ==
    /\ pc = "statistics"
    /\ LET stats == calculate_statistics(trades, equity_curve, RiskFreeRate)
       IN IF RaisedIn(stats) = "none"
          THEN /\ result' = stats
               /\ pc' = "done"
               /\ UNCHANGED raised
          ELSE /\ raised' = RaisedIn(stats)
               /\ pc' = "raised"
               /\ UNCHANGED result
    /\ UNCHANGED <<config, current_capital, positions, trades, equity_curve,
                   data, strategy_func, idx, signal, calls, runs, prev>>

NextStats == CalculateStatistics /\ UNCHANGED envVars

SpecStats == InitStats /\ [][NextStats]_vars

\* The longest run of consecutive entries of pnls on one side of zero
\* (sign 1: strictly positive, sign -1: strictly negative); any other entry,
\* a zero included, ends the run.
LongestRun(pnls, sign) ==
    LET runs_ == { <<k, m>> \in (1..Len(pnls)) \X (1..Len(pnls)) :
                     k <= m /\ \A i \in k..m : sign * pnls[i] > 0 }
        lengths == { r[2] - r[1] + 1 : r \in runs_ } \cup {0}
    IN CHOOSE x \in lengths : \A y \in lengths : y <= x

\* C21: max_consecutive_wins (max_consecutive_losses) is the length of the
\* longest run of consecutive strictly positive (strictly negative) P&L values
\* in the closed-trade list, a zero-P&L trade resetting both streaks: wins
\* separated by a zero-P&L trade do not form one streak.
C21_StreaksResetOnZero ==
    pc = "done" =>
        /\ result.max_consecutive_wins = LongestRun(PnlsOf(trades), 1)
        /\ result.max_consecutive_losses = LongestRun(PnlsOf(trades), -1)

\* max(e[0..j]) and the drawdown at entry j of the equity values e.
RunningPeak(e, j) == CHOOSE x \in {e[i] : i \in 1..j} : \A i \in 1..j : e[i] <= x
DrawdownAt(e, j) == RunningPeak(e, j) - e[j]

\* The largest drawdown of e, and the first entry where it is attained.
LargestDrawdown(e) ==
    CHOOSE x \in {DrawdownAt(e, j) : j \in 1..Len(e)} :
        \A j \in 1..Len(e) : DrawdownAt(e, j) <= x
FirstAttained(e) ==
    CHOOSE j \in 1..Len(e) :
        /\ DrawdownAt(e, j) = LargestDrawdown(e)
        /\ \A i \in 1..(j - 1) : DrawdownAt(e, i) < LargestDrawdown(e)

\* C26: max_drawdown is the maximum over j of max(e[0..j]) - e[j], never
\* negative, and max_drawdown_pct is that drawdown divided by the running peak
\* at the entry where the maximum is first attained, times 100, and 0 when
\* that peak is not positive.
C26_MaxDrawdown ==
    (pc = "done" /\ result.total_trades > 0 /\ equity_curve # <<>>) =>
        LET e == EquityValuesOf(equity_curve)
            j == FirstAttained(e)
        IN /\ result.max_drawdown = LargestDrawdown(e)
           /\ result.max_drawdown >= 0
           /\ result.max_drawdown_pct =
                 IF RunningPeak(e, j) > 0
                 THEN Fraction(LargestDrawdown(e) * 100, RunningPeak(e, j))
                 ELSE <<0, 1>>

\* C26 witness: the largest drawdown is attained twice, under a higher peak
\* the second time, and the percentage is the one of the first time.
C26_Witness ==
    /\ pc = "done"
    /\ result.total_trades > 0
    /\ Len(equity_curve) >= 2
    /\ LET e == EquityValuesOf(equity_curve)
       IN /\ result.max_drawdown > 0
          /\ \E j \in 1..Len(e) :
                /\ j > FirstAttained(e)
                /\ DrawdownAt(e, j) = LargestDrawdown(e)
                /\ RunningPeak(e, j) > RunningPeak(e, FirstAttained(e))
                /\ result.max_drawdown_pct #
                      Fraction(result.max_drawdown * 100, RunningPeak(e, j))
          /\ result.max_drawdown_pct =
                Fraction(result.max_drawdown * 100, RunningPeak(e, FirstAttained(e)))

\* C26 witness: the peak under the largest drawdown is not positive.
C26_WitnessNoPositivePeak ==
    /\ pc = "done"
    /\ result.total_trades > 0
    /\ result.max_drawdown > 0
    /\ result.max_drawdown_pct = <<0, 1>>

\* The calendar days on which the equity curve has an entry.
DaysOf(curve) == {DateOf(curve[i][1]) : i \in 1..Len(curve)}

\* C25: the Sharpe and Sortino computations never raise and give 0.0 when
\* fewer than 2 daily returns are available, as for a run whose bars fall on
\* one or two calendar days; Calmar is 0.0 when the max drawdown is 0; and the
\* construction of the result raises for no trade list and equity curve.
C25_RatiosDegrade ==
    /\ raised = "none"
    /\ pc # "raised"
    /\ pc = "done" =>
          /\ Cardinality(DaysOf(equity_curve)) <= 2 =>
                Len(result.daily_returns) < 2
          /\ Len(result.daily_returns) < 2 =>
                /\ result.sharpe_ratio = Zero
                /\ result.sortino_ratio = Zero
          /\ result.max_drawdown = 0 => result.calmar_ratio = Zero

\* C25 witness: a result was built for a trade with a P&L and a curve of three
\* entries on two calendar days that never fell: one daily return, no drawdown.
C25_Witness ==
    /\ pc = "done"
    /\ result.total_trades = 1
    /\ result.total_pnl # 0
    /\ Len(equity_curve) = 3
    /\ Cardinality(DaysOf(equity_curve)) = 2
    /\ Len(result.daily_returns) = 1
    /\ result.daily_returns[1] > 0
    /\ result.max_drawdown = 0
    /\ result.sharpe_ratio = Zero
    /\ result.calmar_ratio = Zero

\* C25 witness: with three daily returns that differ the Sharpe ratio is a
\* number other than 0.0 and the construction does not raise either.
C25_WitnessEnoughReturns ==
    /\ pc = "done"
    /\ Len(result.daily_returns) >= 3
    /\ result.sharpe_ratio.kind = "ratio"
    /\ result.sortino_ratio.kind \in {"ratio", "inf"}
    /\ result.calmar_ratio.kind = "quotient"

====
